---- MODULE Spec2Model ----
(***************************************************************************)
(* PromptVault: encrypted local-first sync engine.                         *)
(*                                                                         *)
(* The model follows src/lib/crypto.ts, src/lib/gist.ts and the App /      *)
(* MainApp components (src/unnamed/part_000).  Every `await` of the source *)
(* is a suspension point: the code up to the await runs in one step, the   *)
(* awaited call completes in a later step (a remote call takes effect on   *)
(* the remote account in the step that delivers its response).  React      *)
(* state setters act only on the mounted MainApp instance; continuations   *)
(* of an unmounted instance keep running with their closures.              *)
(***************************************************************************)
EXTENDS Integers, Sequences, FiniteSets, TLC

(* ------------------------------ bounds -------------------------------- *)
MaxOps == 2
MaxSessions == 2
MaxRelockOps == 1
MaxForce == 1
MaxGists == 3
MaxFlips == 1
MaxDeviceOps == 1

(* --------------------------- program data ----------------------------- *)
ITERATIONS == 100000
SaveDelay == 1500
DataVersion == 1

Pin == <<1, 2, 3, 4>>
WrongPin == <<9, 9, 9, 9>>
ShortPin == <<1, 2>>
PinInputs == {Pin, WrongPin, ShortPin}

Token == "ghp_token"
RevokedToken == "ghp_revoked"
NoToken == ""
TokenInputs == {Token, RevokedToken, NoToken}

\* the login GitHub reports for Token
Username == "octocat"

GistIds == 1..MaxGists
NoGist == 0

Sessions == 1..MaxSessions

\* a record of the dataset; a field a JSON object lacks reads as undefined
Undefined == 0 - 1

Prompt(i, t, f) == [id |-> i, title |-> t, isFavorite |-> f, usageCount |-> 0, updatedAt |-> 0]

\* the record has the fields of Prompt
WellFormed(p) == p.id # Undefined

VaultData(p, v, l) == [prompts |-> p, version |-> v, lastSync |-> l]

NullDoc == VaultData(<<>>, 0, 0)

\* getDefaultData(): three records with fresh ids (genId), version 1, lastSync 0
\* (updatedAt in days before the call, usageCount as written there)
getDefaultData(s) ==
  VaultData(<<[Prompt(100 * s + 1, "d1", TRUE) EXCEPT !.usageCount = 23, !.updatedAt = 0 - 5],
              [Prompt(100 * s + 2, "d2", TRUE) EXCEPT !.usageCount = 15, !.updatedAt = 0 - 2],
              [Prompt(100 * s + 3, "d3", FALSE) EXCEPT !.usageCount = 8, !.updatedAt = 0 - 1]>>,
            DataVersion, 0)

Titles(ps) == [i \in 1..Len(ps) |-> [title |-> ps[i].title, isFavorite |-> ps[i].isFavorite]]

IsDefaults(ps) == Titles(ps) = Titles(getDefaultData(0).prompts)

Ids(ps) == {ps[i].id : i \in 1..Len(ps)}

(* ------------------- serialisation (JSON.stringify/parse) -------------- *)
Text(s) == [kind |-> "text", text |-> s, doc |-> NullDoc]
JsonStringify(d) == [kind |-> "json", text |-> "", doc |-> d]
\* JSON.parse: <<doc>> on success, <<>> when it throws
JsonParse(s) == IF s.kind = "json" THEN <<s.doc>> ELSE <<>>

VERIFY_PHRASE == Text("PROMPTVAULT_V1_OK")

(* ----------------------------- crypto.ts ------------------------------ *)
\* PBKDF2: deterministic in (pin, salt), distinct inputs give distinct keys
deriveKey(pin, salt) == [pin |-> pin, salt |-> salt, iterations |-> ITERATIONS]

\* AES-GCM under key and iv; the tag binds key and iv
encrypt(plaintext, pin, salt, iv) ==
  [salt |-> salt, iv |-> iv,
   data |-> [key |-> deriveKey(pin, salt), iv |-> iv, pt |-> plaintext]]

\* <<plaintext>> on success, <<>> when the tag does not verify (throws)
decrypt(envelope, pin) ==
  IF envelope.data.key = deriveKey(pin, envelope.salt) /\ envelope.data.iv = envelope.iv
  THEN <<envelope.data.pt>>
  ELSE <<>>

verifyPin(pin, verifier) ==
  LET result == decrypt(verifier, pin)
  IN  result # <<>> /\ result[1] = VERIFY_PHRASE

NoSalt == [site |-> "none", n |-> 0, k |-> 0]

NoEnv == encrypt(Text(""), <<>>, NoSalt, NoSalt)

\* an envelope whose tag verifies under no PIN (corrupted storage entry)
CorruptEnv == [salt |-> NoSalt, iv |-> NoSalt, data |-> [key |-> deriveKey(<<0>>, NoSalt), iv |-> NoSalt, pt |-> Text("")]]

(* ------------------- crypto.ts, on the stored strings ------------------ *)
\* The operators above abstract the layout of an envelope. Below, an envelope is the string
\* the code stores: a JavaScript string is a sequence of code units, a byte array a sequence
\* of bytes (one element per encoded code unit), and the envelope the base64 text of
\* salt, iv and ciphertext packed in this order.
SaltLen == 16
IvLen == 12

Bom == "FEFF"
Replacement == "FFFD"
LoneSurrogates == {"D800", "D801"}

Min(a, b) == IF a <= b THEN a ELSE b

\* Uint8Array.slice(from, to): both ends clamped to the length
Slice(bytes, from, to) == SubSeq(bytes, Min(from, Len(bytes)) + 1, Min(to, Len(bytes)))

\* TextEncoder.encode: the argument is converted to a USVString, which replaces every
\* unpaired surrogate by U+FFFD, and is then encoded as UTF-8
TextEncode(str) ==
  [i \in 1..Len(str) |-> [ch |-> IF str[i] \in LoneSurrogates THEN Replacement ELSE str[i]]]

\* TextDecoder.decode with the default options: a leading byte order mark is dropped
TextDecode(bytes) ==
  LET units == [i \in 1..Len(bytes) |-> bytes[i].ch]
  IN  IF units # <<>> /\ units[1] = Bom THEN Tail(units) ELSE units

\* crypto.getRandomValues(new Uint8Array(len)) of the drawing r
RandomBytes(r, len) == [i \in 1..len |-> [rnd |-> r, i |-> i]]

\* AES-GCM: one ciphertext byte per plaintext byte, then the tag over key, iv and plaintext
AesGcmEncrypt(key, iv, pt) ==
  [i \in 1..Len(pt) |-> [key |-> key, iv |-> iv, i |-> i, pt |-> pt[i]]]
    \o <<[key |-> key, iv |-> iv, tag |-> pt]>>

\* <<plaintext bytes>>, or <<>> when the operation throws (data too short, tag not verified)
AesGcmDecrypt(key, iv, data) ==
  LET n == Len(data) - 1
      pt == [i \in 1..n |-> data[i].pt]
  IN  IF /\ Len(iv) > 0
         /\ n >= 0
         /\ \A i \in 1..n : DOMAIN data[i] = {"key", "iv", "i", "pt"}
         /\ data = AesGcmEncrypt(key, iv, pt)
      THEN <<pt>>
      ELSE <<>>

\* arrayBufferToBase64: btoa of one character per byte; every three bytes give one group of
\* four characters, the last group padded
arrayBufferToBase64(bytes) ==
  [g \in 1..((Len(bytes) + 2) \div 3) |-> [b |-> SubSeq(bytes, 3 * g - 2, Min(3 * g, Len(bytes)))]]

RECURSIVE Flatten(_)
Flatten(groups) == IF groups = <<>> THEN <<>> ELSE Head(groups).b \o Flatten(Tail(groups))

\* a character outside the base64 alphabet
BadChar == [x |-> "!"]

\* base64ToUint8Array: <<bytes>>, or <<>> when atob throws on text that is not base64
base64ToUint8Array(base64) ==
  IF \E g \in 1..Len(base64) : DOMAIN base64[g] # {"b"}
  THEN <<>>
  ELSE <<Flatten(base64)>>

\* encrypt: lines 48-67, with the salt and the iv it draws
encryptPacked(plaintext, pin, salt, iv) ==
  LET key == deriveKey(TextEncode(pin), salt)
      encBytes == AesGcmEncrypt(key, iv, TextEncode(plaintext))
  IN  arrayBufferToBase64(salt \o iv \o encBytes)

\* decrypt: lines 69-84; <<plaintext>>, or <<>> when it throws
decryptPacked(encryptedBase64, pin) ==
  LET combined == base64ToUint8Array(encryptedBase64)
  IN  IF combined = <<>> THEN <<>>
      ELSE LET salt == Slice(combined[1], 0, SaltLen)
               iv == Slice(combined[1], SaltLen, SaltLen + IvLen)
               data == Slice(combined[1], SaltLen + IvLen, Len(combined[1]))
               key == deriveKey(TextEncode(pin), salt)
               decrypted == AesGcmDecrypt(key, iv, data)
           IN  IF decrypted = <<>> THEN <<>> ELSE <<TextDecode(decrypted[1])>>

\* VERIFY_PHRASE as a string of code units
VerifyPhraseUnits == <<"PROMPTVAULT", "_", "V1", "_", "OK">>

\* createPinVerifier: lines 87-89
createPinVerifier(pin, salt, iv) == encryptPacked(VerifyPhraseUnits, pin, salt, iv)

\* verifyPin: lines 91-98
verifyPinPacked(pin, verifier) ==
  LET result == decryptPacked(verifier, pin)
  IN  result # <<>> /\ result[1] = VerifyPhraseUnits

(* ------------------------------ gist.ts ------------------------------- *)
Labeled(g) == {i \in GistIds : g[i] # <<>>}

FreeIds(g) == GistIds \ Labeled(g)

\* findVaultGist: id of a labeled gist, null when none or on any failure
findVaultGist(g, ok, pick) ==
  IF ok /\ pick \in Labeled(g) THEN pick ELSE NoGist

\* loadFromGist: <<VaultData>> or <<>> (null) on any failure
loadFromGist(g, gistId, ok) ==
  IF ok /\ gistId \in Labeled(g) THEN JsonParse(g[gistId][1]) ELSE <<>>

\* a variant that creates a blob whether or not a handle is given
saveToGistCreate(g, gistId, data, ok) ==
  IF ok /\ FreeIds(g) # {}
  THEN LET new == CHOOSE i \in FreeIds(g) : \A j \in FreeIds(g) : i <= j
       IN  [id |-> new, gists |-> [g EXCEPT ![new] = <<JsonStringify(data)>>]]
  ELSE [id |-> NoGist, gists |-> g]

\* saveToGist: [id, gists]; id is null on failure
saveToGist(g, gistId, data, ok) ==
  IF gistId # NoGist
  THEN IF ok /\ gistId \in Labeled(g)
       THEN [id |-> gistId, gists |-> [g EXCEPT ![gistId] = <<JsonStringify(data)>>]]
       ELSE [id |-> NoGist, gists |-> g]
  ELSE IF ok /\ FreeIds(g) # {}
       THEN LET new == CHOOSE i \in FreeIds(g) : \A j \in FreeIds(g) : i <= j
            IN  [id |-> new, gists |-> [g EXCEPT ![new] = <<JsonStringify(data)>>]]
       ELSE [id |-> NoGist, gists |-> g]

(* ------------------------------- state -------------------------------- *)
VARIABLES
  screen,          \* App.screen: "setup" | "lock" | "main"
  cur,             \* number of MainApp mounts so far; the mounted one when screen = "main"
  net,             \* the remote store answers ("up") or every call to it fails ("down")
  nFlips,          \* changes of net so far
  ls,              \* localStorage: verifier, token, cache (<<>> or <<envelope>>), gistId, username;
                   \* full: setItem of a cache envelope exceeds the quota and throws
  gists,           \* remote account: gist id -> <<>> or <<content of promptvault_data.json>>
  prompts,         \* MainApp state
  syncStatus,      \* MainApp state
  dataLoaded,      \* MainApp state
  tokenRef,        \* tokenRef.current of every MainApp instance
  saveTimeoutRef,  \* saveTimeoutRef.current of the mounted instance (0 = null)
  timers,          \* pending setTimeout callbacks: [id, sess, newPrompts]
  init,            \* init() coroutine of every MainApp instance
  saves,           \* saveToCloud() calls in flight
  forces,          \* forceSync() calls in flight
  nMut,            \* mutations applied so far
  nForce,          \* forceSync calls so far
  lastWriter,      \* history: which operation wrote prompts last
  failing,         \* history: no remote call has succeeded yet; the edit a failed propagation carried
  bench            \* calls of the library functions made directly, with their results; in an
                   \* editing session the file chosen last in the import dialog

appVars == <<screen, cur, net, nFlips, ls, gists, prompts, syncStatus, dataLoaded, tokenRef,
             saveTimeoutRef, timers, init, saves, forces,
             nMut, nForce, lastWriter, failing>>

vars == <<appVars, bench>>

World ==
  [screen |-> screen, cur |-> cur, net |-> net, nFlips |-> nFlips, ls |-> ls, gists |-> gists,
   prompts |-> prompts, syncStatus |-> syncStatus, dataLoaded |-> dataLoaded,
   tokenRef |-> tokenRef, saveTimeoutRef |-> saveTimeoutRef, timers |-> timers,
   init |-> init, saves |-> saves, forces |-> forces, nMut |-> nMut,
   nForce |-> nForce, lastWriter |-> lastWriter, failing |-> failing]

CommitApp(w) ==
  /\ screen' = w.screen
  /\ cur' = w.cur
  /\ net' = w.net
  /\ nFlips' = w.nFlips
  /\ ls' = w.ls
  /\ gists' = w.gists
  /\ prompts' = w.prompts
  /\ syncStatus' = w.syncStatus
  /\ dataLoaded' = w.dataLoaded
  /\ tokenRef' = w.tokenRef
  /\ saveTimeoutRef' = w.saveTimeoutRef
  /\ timers' = w.timers
  /\ init' = w.init
  /\ saves' = w.saves
  /\ forces' = w.forces
  /\ nMut' = w.nMut
  /\ nForce' = w.nForce
  /\ lastWriter' = w.lastWriter
  /\ failing' = w.failing

Commit(w) == CommitApp(w) /\ bench' = bench

(* ----------------------- React instance helpers ----------------------- *)
\* the MainApp instance s is mounted: its effect cleanup has not run (cancelled = false)
Live(w, s) == w.screen = "main" /\ w.cur = s

\* setPrompts(v) by a loader (not through modifyPrompts); a no-op once unmounted
setPrompts(w, s, v, who) ==
  IF Live(w, s)
  THEN [w EXCEPT !.prompts = v, !.lastWriter = [by |-> who, n |-> 0]]
  ELSE w

setSyncStatus(w, s, v) == IF Live(w, s) THEN [w EXCEPT !.syncStatus = v] ELSE w

setDataLoaded(w, s) == IF Live(w, s) THEN [w EXCEPT !.dataLoaded = TRUE] ELSE w

\* crypto.getRandomValues: a fresh value, named by the call that draws it
getRandomValues(site, n, k) == [site |-> site, n |-> n, k |-> k]

\* encrypt(JSON.stringify(doc), pin): salt and iv are drawn when the call is made
EncryptDoc(doc, pin, site, n) ==
  encrypt(JsonStringify(doc), pin, getRandomValues(site, n, 1), getRandomValues(site, n, 2))

\* Date.now() when the timer with handle id fires: timers of equal delay fire in scheduling order
DateNow(id) == 10 + id

\* the dataset the encrypted cache decrypts to under the PIN, <<>> when it does not
CachedDoc(l) ==
  IF l.cache = <<>> THEN <<>>
  ELSE LET r == decrypt(l.cache[1], Pin) IN IF r = <<>> THEN <<>> ELSE JsonParse(r[1])

(* ------------------------------- Init --------------------------------- *)
CacheData0 == VaultData(<<Prompt(1, "c1", FALSE)>>, DataVersion, 1)
RemoteData0 == VaultData(<<Prompt(1, "c1", TRUE), Prompt(2, "r2", FALSE)>>, DataVersion, 2)

NeverUp == [up |-> FALSE, lost |-> <<>>]

NoBench == <<>>

InitRec(p) ==
  [pc |-> "idle", pin |-> p, dataLoaded |-> FALSE, res |-> <<>>, env |-> NoEnv,
   gistId |-> NoGist, gistData |-> <<>>, defaults |-> NullDoc,
   cacheData |-> <<>>, tokenFailed |-> FALSE, fetchFailed |-> FALSE,
   readCache |-> FALSE, hadHandle |-> FALSE, blobs0 |-> 0, created |-> FALSE,
   outcome |-> "none"]

GoodToken == <<encrypt(Text(Token), Pin, getRandomValues("setup", 2, 1), getRandomValues("setup", 2, 2))>>
GoodCache == <<encrypt(JsonStringify(CacheData0), Pin, getRandomValues("setup", 3, 1), getRandomValues("setup", 3, 2))>>
Verifier == <<encrypt(VERIFY_PHRASE, Pin, getRandomValues("setup", 1, 1), getRandomValues("setup", 1, 2))>>

EmptyAccount == [i \in GistIds |-> <<>>]
UsedAccount == [i \in GistIds |-> IF i = 1 THEN <<JsonStringify(RemoteData0)>> ELSE <<>>]

Store(t, c, h) ==
  [verifier |-> Verifier, token |-> t, cache |-> c, gistId |-> h, username |-> <<Username>>,
   full |-> FALSE]

\* the device and the account as earlier sessions (of this or another device) can leave them
Scenarios ==
  {[ls |-> Store(GoodToken, GoodCache, 1), gists |-> UsedAccount],
   [ls |-> Store(GoodToken, <<>>, NoGist), gists |-> EmptyAccount],
   [ls |-> Store(GoodToken, <<CorruptEnv>>, NoGist), gists |-> UsedAccount],
   [ls |-> Store(<<CorruptEnv>>, GoodCache, 1), gists |-> UsedAccount],
   [ls |-> Store(<<>>, GoodCache, NoGist), gists |-> EmptyAccount]}

\* a cache envelope that decrypts under the PIN to text JSON.parse rejects
BadJsonCache == <<encrypt(Text("{"), Pin, getRandomValues("setup", 3, 1), getRandomValues("setup", 3, 2))>>

\* further states of the device: storage at its quota, a cache that is missing, corrupted or
\* not parseable, with and without a credential
DeviceScenarios ==
  {[ls |-> [Store(GoodToken, GoodCache, 1) EXCEPT !.full = TRUE], gists |-> UsedAccount],
   [ls |-> Store(GoodToken, BadJsonCache, 1), gists |-> UsedAccount],
   [ls |-> Store(<<>>, BadJsonCache, NoGist), gists |-> EmptyAccount],
   [ls |-> Store(GoodToken, <<CorruptEnv>>, NoGist), gists |-> EmptyAccount],
   [ls |-> Store(GoodToken, <<>>, NoGist), gists |-> UsedAccount]}

\* a device on which the application was never set up
NoStore ==
  [verifier |-> <<>>, token |-> <<>>, cache |-> <<>>, gistId |-> NoGist, username |-> <<>>,
   full |-> FALSE]

\* a device set up and synced earlier, and a new device, with an account that is new or in use
SetupScenarios ==
  {[ls |-> Store(GoodToken, GoodCache, 1), gists |-> UsedAccount],
   [ls |-> NoStore, gists |-> UsedAccount],
   [ls |-> NoStore, gists |-> EmptyAccount]}

\* App: the first screen is setup when no verifier is stored, lock otherwise: lines 556-559
FirstScreen(l) == IF l.verifier # <<>> THEN "lock" ELSE "setup"

\* the first render of App on a device in one of the states scs
StartApp(scs) ==
  /\ \E sc \in scs : ls = sc.ls /\ gists = sc.gists
  /\ screen = FirstScreen(ls)
  /\ cur = 0
  /\ net \in {"up", "down"}
  /\ nFlips = 0
  /\ prompts = <<>>
  /\ syncStatus = "idle"
  /\ dataLoaded = FALSE
  /\ tokenRef = [s \in Sessions |-> NoToken]
  /\ saveTimeoutRef = 0
  /\ timers = {}
  /\ init = [s \in Sessions |-> InitRec(<<>>)]
  /\ saves = {}
  /\ forces = {}
  /\ nMut = 0
  /\ nForce = 0
  /\ lastWriter = [by |-> "none", n |-> 0]
  /\ failing = NeverUp

\* the application starts; no library function is called outside it
Start(scs) == StartApp(scs) /\ bench = NoBench

Init == Start(Scenarios)

InitDevice == Start(DeviceScenarios)

InitSetup == Start(SetupScenarios)

\* history: a remote call succeeded / a propagation failed while none ever had
RemoteOk(w, ok) == IF ok THEN [w EXCEPT !.failing = [up |-> TRUE, lost |-> <<>>]] ELSE w

RemoteFailed(w, t) ==
  IF w.failing.up THEN w ELSE [w EXCEPT !.failing.lost = <<[sess |-> t.sess, edit |-> t.hist.edit]>>]

(* --------------------------- MainApp.init ------------------------------ *)
SetI(w, s, r) == [w EXCEPT !.init[s] = r]

Finish(w, s, how) == [w EXCEPT !.init[s].pc = "done", !.init[s].outcome = how]

\* catch (err): lines 701-711
InitCatch(w, s) ==
  IF Live(w, s)
  THEN LET w1 == setSyncStatus(w, s, "error")
       IN  IF ~w.init[s].dataLoaded
           THEN Finish(setDataLoaded(setPrompts(w1, s,
                                                getDefaultData(s).prompts, "defaults"), s),
                       s, "error")
           ELSE Finish(w1, s, "error")
  ELSE Finish(w, s, "error")

\* a variant that leaves the status untouched when no credential is stored
InitNoTokenSilent(w, s) ==
  LET w1 == IF Live(w, s) /\ ~w.init[s].dataLoaded
            THEN setDataLoaded(setPrompts(w, s,
                                          getDefaultData(s).prompts, "defaults"), s)
            ELSE w
  IN  Finish(w1, s, "offline")

\* else branch "No token": lines 693-700
InitNoToken(w, s) ==
  LET w1 == IF Live(w, s) /\ ~w.init[s].dataLoaded
            THEN setDataLoaded(setPrompts(w, s,
                                          getDefaultData(s).prompts, "defaults"), s)
            ELSE w
  IN  Finish(setSyncStatus(w1, s, "offline"), s, "offline")

\* "No gist at all": lines 678-692, up to the await of saveToGist
InitSeed(w, s) ==
  IF Live(w, s) /\ ~w.init[s].dataLoaded
  THEN LET defaults == getDefaultData(s)
           w1 == setDataLoaded(setPrompts(w, s,
                                          defaults.prompts, "defaults"), s)
       IN  [w1 EXCEPT !.init[s].pc = "seed", !.init[s].defaults = defaults]
  ELSE Finish(w, s, "none")

\* "Then sync from Gist": lines 642-648, 662-663, up to the first await
InitRemote(w, s) ==
  IF w.tokenRef[s] # NoToken
  THEN LET w1 == setSyncStatus(w, s, "syncing")
           gistId == w.ls.gistId
       IN  IF gistId # NoGist
           THEN [w1 EXCEPT !.init[s].pc = "load", !.init[s].gistId = gistId,
                           !.init[s].hadHandle = TRUE]
           ELSE [w1 EXCEPT !.init[s].pc = "find"]
  ELSE InitNoToken(w, s)

\* a variant that treats a missing cache entry as a failure of bootstrap
InitCacheRequired(w, s) ==
  IF w.ls.cache # <<>>
  THEN [w EXCEPT !.init[s].pc = "cache", !.init[s].res = decrypt(w.ls.cache[1], w.init[s].pin),
                 !.init[s].readCache = TRUE]
  ELSE InitCatch(w, s)

\* "Try to load from encrypted cache first": lines 627-631
InitCache(w, s) ==
  IF w.ls.cache # <<>>
  THEN [w EXCEPT !.init[s].pc = "cache", !.init[s].res = decrypt(w.ls.cache[1], w.init[s].pin),
                 !.init[s].readCache = TRUE]
  ELSE InitRemote(w, s)

\* start of init(): lines 619-623
InitStart(w, s) ==
  IF w.ls.token # <<>>
  THEN [w EXCEPT !.init[s].pc = "tok", !.init[s].res = decrypt(w.ls.token[1], w.init[s].pin)]
  ELSE InitCache(w, s)

\* decrypt(encToken) settles: lines 623-625
InitTokDoneW(w, s) ==
  LET r == w.init[s].res
  IN  IF r = <<>>
      THEN InitCatch([w EXCEPT !.init[s].tokenFailed = TRUE], s)
      ELSE InitCache([w EXCEPT !.tokenRef[s] = r[1].text], s)

\* a variant that starts the remote phase before it shows the dataset read from the cache
InitCacheDoneLate(w, s) ==
  LET r == w.init[s].res
      cacheData == IF r = <<>> THEN <<>> ELSE JsonParse(r[1])
  IN  IF cacheData # <<>> /\ Live(w, s)
      THEN InitRemote([w EXCEPT !.init[s].cacheData = cacheData], s)
      ELSE InitRemote(w, s)

\* decrypt(encCache) settles: lines 631-640
InitCacheDoneW(w, s) ==
  LET r == w.init[s].res
      cacheData == IF r = <<>> THEN <<>> ELSE JsonParse(r[1])
  IN  IF cacheData # <<>> /\ Live(w, s)
      THEN InitRemote(setDataLoaded(setPrompts([w EXCEPT !.init[s].cacheData = cacheData], s,
                                               cacheData[1].prompts, "cache"), s), s)
      ELSE InitRemote(w, s)

\* a variant that keeps a dataset already loaded from the cache
InitAdoptUnlessCached(w, s, gistData, next) ==
  LET w1 == IF w.init[s].cacheData # <<>> THEN w ELSE setPrompts(w, s, gistData.prompts, "init")
  IN  [w1 EXCEPT !.init[s].pc = next, !.init[s].gistData = <<gistData>>,
                 !.init[s].env = EncryptDoc(gistData, w1.init[s].pin, "init", s)]

\* fetched data is adopted and the cache encryption is started: lines 650-652, 668-669
InitAdopt(w, s, gistData, next) ==
  LET w1 == setPrompts(w, s, gistData.prompts, "init")
  IN  [w1 EXCEPT !.init[s].pc = next, !.init[s].gistData = <<gistData>>,
                 !.init[s].env = EncryptDoc(gistData, w1.init[s].pin, "init", s)]

\* loadFromGist(gistId) settles: lines 648-659
InitLoadDoneW(w, s, ok) ==
  LET gistData == loadFromGist(w.gists, w.init[s].gistId, ok)
  IN  IF Live(w, s) /\ gistData # <<>>
      THEN InitAdopt(w, s, gistData[1], "enc1")
      ELSE InitSeed([w EXCEPT !.init[s].fetchFailed = (gistData = <<>>)], s)

\* findVaultGist settles: lines 663-666
InitFindDoneW(w, s, ok, pick) ==
  LET foundId == findVaultGist(w.gists, ok, pick)
  IN  IF Live(w, s) /\ foundId # NoGist
      THEN [w EXCEPT !.ls.gistId = foundId, !.init[s].pc = "load2", !.init[s].gistId = foundId]
      ELSE InitSeed(w, s)

\* loadFromGist(foundId) settles: lines 666-675
InitLoad2DoneW(w, s, ok) ==
  LET gistData == loadFromGist(w.gists, w.init[s].gistId, ok)
  IN  IF gistData # <<>>
      THEN InitAdopt(w, s, gistData[1], "enc2")
      ELSE InitSeed([w EXCEPT !.init[s].fetchFailed = TRUE], s)

\* encrypt settles after a fetch: lines 653-657, 670-673
InitEncDoneW(w, s, how) ==
  LET w1 == [w EXCEPT !.ls.cache = <<w.init[s].env>>]
  IN  IF w.ls.full
      THEN InitCatch(w, s)
      ELSE Finish(setDataLoaded(setSyncStatus(w1, s, "synced"), s), s, how)

\* a variant that uploads the dataset of the first render instead of the defaults
InitSeedDoneStale(w, s, ok) ==
  LET r == saveToGist(w.gists, NoGist, VaultData(<<>>, DataVersion, 0), ok)
  IN  IF r.id # NoGist
      THEN [w EXCEPT !.gists = r.gists, !.ls.gistId = r.id, !.init[s].pc = "enc3",
                     !.init[s].created = TRUE,
                     !.init[s].env = EncryptDoc(w.init[s].defaults, w.init[s].pin, "init", s)]
      ELSE Finish(setSyncStatus(w, s, "synced"), s, "seeded")

\* saveToGist(token, null, defaults) settles: lines 685-691
InitSeedDoneW(w, s, ok) ==
  LET r == saveToGist(w.gists, NoGist, w.init[s].defaults, ok)
  IN  IF r.id # NoGist
      THEN [w EXCEPT !.gists = r.gists, !.ls.gistId = r.id, !.init[s].pc = "enc3",
                     !.init[s].created = TRUE,
                     !.init[s].env = EncryptDoc(w.init[s].defaults, w.init[s].pin, "init", s)]
      ELSE Finish(setSyncStatus(w, s, "synced"), s, "seeded")

\* encrypt settles after seeding: lines 688-691
InitEnc3DoneW(w, s) ==
  IF w.ls.full
  THEN InitCatch(w, s)
  ELSE Finish(setSyncStatus([w EXCEPT !.ls.cache = <<w.init[s].env>>], s, "synced"), s, "seeded")

(* ------------------------- App / LockScreen --------------------------- *)
\* MainApp mounts with fresh state and refs: lines 589-613
Mount(w, p) ==
  LET s == w.cur + 1
  IN  [w EXCEPT !.screen = "main", !.cur = s,
                !.prompts = <<>>, !.syncStatus = "idle", !.dataLoaded = FALSE,
                !.tokenRef[s] = NoToken, !.saveTimeoutRef = 0,
                !.lastWriter = [by |-> "none", n |-> 0],
                !.init[s] = [InitRec(p) EXCEPT !.blobs0 = Cardinality(Labeled(w.gists))]]

\* LockScreen.handleSubmit, App.handleUnlock and the mount effect
Unlock(p, maxSessions) ==
  /\ screen = "lock"
  /\ cur < maxSessions
  /\ Len(p) >= 4
  /\ ls.verifier # <<>>
  /\ verifyPin(p, ls.verifier[1])
  /\ Commit(InitStart(Mount(World, p), cur + 1))

\* App.handleLock: MainApp unmounts, the effect cleanup sets cancelled
Lock ==
  /\ screen = "main"
  /\ dataLoaded
  /\ Commit([World EXCEPT !.screen = "lock"])

InitTokDone(s) == init[s].pc = "tok" /\ Commit(InitTokDoneW(World, s))

InitCacheDone(s) == init[s].pc = "cache" /\ Commit(InitCacheDoneW(World, s))

InitLoadDone(s) ==
  /\ init[s].pc = "load"
  /\ \E ok \in {net = "up"} :
       Commit(RemoteOk(InitLoadDoneW(World, s, ok), loadFromGist(gists, init[s].gistId, ok) # <<>>))

InitFindDone(s) ==
  /\ init[s].pc = "find"
  /\ \E ok \in {net = "up"}, pick \in GistIds :
       Commit(RemoteOk(InitFindDoneW(World, s, ok, pick), ok))

InitLoad2Done(s) ==
  /\ init[s].pc = "load2"
  /\ \E ok \in {net = "up"} :
       Commit(RemoteOk(InitLoad2DoneW(World, s, ok), loadFromGist(gists, init[s].gistId, ok) # <<>>))

InitEnc1Done(s) == init[s].pc = "enc1" /\ Commit(InitEncDoneW(World, s, "fetched"))

InitEnc2Done(s) == init[s].pc = "enc2" /\ Commit(InitEncDoneW(World, s, "located"))

InitSeedDone(s) ==
  /\ init[s].pc = "seed"
  /\ \E ok \in {net = "up"} :
       Commit(RemoteOk(InitSeedDoneW(World, s, ok), saveToGist(gists, NoGist, NullDoc, ok).id # NoGist))

InitEnc3Done(s) == init[s].pc = "enc3" /\ Commit(InitEnc3DoneW(World, s))

(* --------------------------- SetupScreen ------------------------------- *)
\* validateToken: lines 29-38 of gist.ts
validateToken(token, ok) ==
  IF ok /\ token = Token
  THEN [valid |-> TRUE, username |-> <<Username>>]
  ELSE [valid |-> FALSE, username |-> <<>>]

\* a variant that seals the token under an empty PIN instead of the PIN entered
handleTokenStepUnkeyed(w, pin, token, ok, found) ==
  LET validation == validateToken(token, ok)
      verifier == encrypt(VERIFY_PHRASE, pin, getRandomValues("setup", 1, 1),
                          getRandomValues("setup", 1, 2))
      encryptedToken == encrypt(Text(token), <<>>, getRandomValues("setup", 2, 1),
                                getRandomValues("setup", 2, 2))
  IN  IF token = NoToken \/ ~validation.valid
      THEN w
      ELSE [w EXCEPT !.ls.verifier = <<verifier>>,
                     !.ls.token = <<encryptedToken>>,
                     !.ls.username = validation.username,
                     !.ls.gistId = IF found # NoGist THEN found ELSE @]

\* handleTokenStep: lines 217-260; the entries it writes for PIN pin and a token
handleTokenStep(w, pin, token, ok, found) ==
  LET validation == validateToken(token, ok)
      verifier == encrypt(VERIFY_PHRASE, pin, getRandomValues("setup", 1, 1),
                          getRandomValues("setup", 1, 2))
      encryptedToken == encrypt(Text(token), pin, getRandomValues("setup", 2, 1),
                                getRandomValues("setup", 2, 2))
  IN  IF token = NoToken \/ ~validation.valid
      THEN w
      ELSE [w EXCEPT !.ls.verifier = <<verifier>>,
                     !.ls.token = <<encryptedToken>>,
                     !.ls.username = validation.username,
                     !.ls.gistId = IF found # NoGist THEN found ELSE @]

\* handlePinStep, handleTokenStep and handleFinish: the setup that completes mounts MainApp
Setup(pin, token) ==
  /\ screen = "setup"
  /\ Len(pin) >= 4
  /\ \E okFind \in {net = "up", FALSE}, pick \in GistIds :
       LET w == handleTokenStep(World, pin, token, net = "up",
                                findVaultGist(gists, okFind, pick))
       IN  /\ w.ls.verifier # <<>>
           /\ Commit(InitStart(Mount(RemoteOk(w, TRUE), pin), cur + 1))

(* -------------------------- SettingsModal ------------------------------ *)
\* handleUpdateToken: lines 1641-1664
handleUpdateToken(w, s, newToken, ok) ==
  LET validation == validateToken(newToken, ok)
      encryptedToken == encrypt(Text(newToken), w.init[s].pin, getRandomValues("settings", s, 1),
                                getRandomValues("settings", s, 2))
  IN  IF newToken = NoToken \/ ~validation.valid
      THEN w
      ELSE [w EXCEPT !.ls.token = <<encryptedToken>>,
                     !.ls.username = IF validation.username # <<>> THEN validation.username ELSE @]

UpdateToken(newToken) ==
  /\ screen = "main"
  /\ dataLoaded
  /\ LET w == handleUpdateToken(World, cur, newToken, net = "up")
     IN  /\ w.ls # ls
         /\ Commit(RemoteOk(w, TRUE))

(* ------------------------- mutations (UI) ------------------------------ *)
\* the updater functions passed to modifyPrompts: lines 807-823
\* (addPrompt and updatePrompt read the clock; toggleFavorite, the usage increment of
\* copyToClipboard at line 838 and the updater of importData at lines 894-898 do not)
NoFn == [op |-> "none", id |-> 0, now |-> 0, title |-> "", data |-> <<>>]
AddFn(i, now) == [NoFn EXCEPT !.op = "add", !.id = i, !.now = now]
DelFn(i) == [NoFn EXCEPT !.op = "del", !.id = i]
FavFn(i) == [NoFn EXCEPT !.op = "fav", !.id = i]
UpdFn(i, title, now) == [NoFn EXCEPT !.op = "upd", !.id = i, !.title = title, !.now = now]
UseFn(i) == [NoFn EXCEPT !.op = "use", !.id = i]
ImportFn(data) == [NoFn EXCEPT !.op = "import", !.data = data]

ApplyFn(fn, prev) ==
  CASE fn.op = "add" -> Append(prev, [Prompt(fn.id, "new", FALSE) EXCEPT !.updatedAt = fn.now])
    [] fn.op = "del" -> LET keep(p) == p.id # fn.id IN SelectSeq(prev, keep)
    [] fn.op = "fav" -> [i \in 1..Len(prev) |->
                           IF prev[i].id = fn.id
                           THEN [prev[i] EXCEPT !.isFavorite = ~prev[i].isFavorite]
                           ELSE prev[i]]
    [] fn.op = "upd" -> [i \in 1..Len(prev) |->
                           IF prev[i].id = fn.id
                           THEN [prev[i] EXCEPT !.title = fn.title, !.updatedAt = fn.now]
                           ELSE prev[i]]
    [] fn.op = "use" -> [i \in 1..Len(prev) |->
                           IF prev[i].id = fn.id
                           THEN [prev[i] EXCEPT !.usageCount = @ + 1]
                           ELSE prev[i]]
    [] fn.op = "import" -> LET existingIds == Ids(prev)
                               fresh(p) == p.id \notin existingIds
                           IN  prev \o SelectSeq(fn.data, fresh)

\* history of a pending timer: the mutations it coalesces, the records the last one wrote
NoHist == [n |-> 0, edit |-> {}]

Range(ps) == {ps[i] : i \in 1..Len(ps)}

\* a variant that arms a new timer without clearing the pending one
debouncedSaveNoClear(w, s, newPrompts) ==
  LET id == w.nMut + 1
  IN  [w EXCEPT !.timers = @ \cup {[id |-> id, sess |-> s, newPrompts |-> newPrompts,
                                    delay |-> SaveDelay, hist |-> NoHist]},
                !.saveTimeoutRef = id]

\* debouncedSave: lines 746-749
debouncedSave(w, s, newPrompts) ==
  LET kept == {t \in w.timers : t.id # w.saveTimeoutRef}
      id == w.nMut + 1
  IN  [w EXCEPT !.timers = kept \cup {[id |-> id, sess |-> s, newPrompts |-> newPrompts,
                                      delay |-> SaveDelay, hist |-> NoHist]},
                !.saveTimeoutRef = id]

\* a variant that changes the in-memory dataset without scheduling a propagation
modifyPromptsLocal(w, s, fn) ==
  LET next == ApplyFn(fn, w.prompts)
  IN  [w EXCEPT !.prompts = next]

\* modifyPrompts: lines 799-805
modifyPrompts(w, s, fn) ==
  LET next == ApplyFn(fn, w.prompts)
  IN  [debouncedSave(w, s, next) EXCEPT !.prompts = next]

TimerPending(w) == \E t \in w.timers : t.id = w.saveTimeoutRef

\* the state after modifyPrompts(fn), with its history
Mutated(fn) ==
  LET w == modifyPrompts(World, cur, fn)
      n == IF TimerPending(World)
           THEN (CHOOSE t \in timers : t.id = saveTimeoutRef).hist.n + 1
           ELSE 1
      h == [n |-> n, edit |-> Range(w.prompts) \ Range(prompts)]
  IN  [w EXCEPT !.nMut = @ + 1, !.lastWriter = [by |-> "mutate", n |-> 0],
                !.timers = {IF t.id = w.saveTimeoutRef THEN [t EXCEPT !.hist = h] ELSE t
                            : t \in @}]

\* addPrompt / deletePrompt / toggleFavorite issued from the rendered UI
Mutate(fn, maxOps) ==
  /\ screen = "main"
  /\ dataLoaded
  /\ nMut + nForce < maxOps
  /\ Commit(Mutated(fn))

(* --------------------------- saveToCloud ------------------------------- *)
\* a variant that propagates without looking at the credential
saveToCloudUnguarded(w, s, promptsToSave, now) ==
  LET w1 == setSyncStatus(w, s, "syncing")
      data == VaultData(promptsToSave, DataVersion, now)
  IN  [w1 EXCEPT !.saves = @ \cup {[sess |-> s, pin |-> w.init[s].pin, pc |-> "save",
                                    data |-> data, gistId |-> w.ls.gistId, env |-> NoEnv,
                                    hist |-> NoHist]}]

\* saveToCloud up to the await of saveToGist: lines 719-729
saveToCloud(w, s, promptsToSave, now) ==
  IF w.tokenRef[s] = NoToken
  THEN w
  ELSE LET w1 == setSyncStatus(w, s, "syncing")
           data == VaultData(promptsToSave, DataVersion, now)
       IN  [w1 EXCEPT !.saves = @ \cup {[sess |-> s, pin |-> w.init[s].pin, pc |-> "save",
                                         data |-> data, gistId |-> w.ls.gistId, env |-> NoEnv,
                                         hist |-> NoHist]}]

\* the debounce timer elapses: line 748
TimerFire(t) ==
  /\ t \in timers
  /\ \A u \in timers : t.id <= u.id
  /\ LET w == saveToCloud([World EXCEPT !.timers = @ \ {t}], t.sess, t.newPrompts, DateNow(t.id))
     IN  Commit([w EXCEPT !.saves = {IF u \in saves THEN u ELSE [u EXCEPT !.hist = t.hist]
                                     : u \in @}])

\* a variant that rolls the in-memory dataset back to the cached one when the upsert fails
SaveDoneRollback(w, t, ok) ==
  LET r == saveToGist(w.gists, t.gistId, t.data, ok)
      rest == w.saves \ {t}
      back == IF CachedDoc(w.ls) = <<>> THEN <<>> ELSE CachedDoc(w.ls)[1].prompts
  IN  IF r.id # NoGist
      THEN [w EXCEPT !.gists = r.gists, !.ls.gistId = r.id,
                     !.saves = rest \cup {[t EXCEPT !.pc = "enc",
                                                    !.env = EncryptDoc(t.data, t.pin, "save", t.data.lastSync)]}]
      ELSE [setSyncStatus(setPrompts(w, t.sess, back, "cache"), t.sess, "error") EXCEPT !.saves = rest]

\* saveToGist settles: lines 729-739
SaveDoneW(w, t, ok) ==
  LET r == saveToGist(w.gists, t.gistId, t.data, ok)
      rest == w.saves \ {t}
  IN  IF r.id # NoGist
      THEN [w EXCEPT !.gists = r.gists, !.ls.gistId = r.id,
                     !.saves = rest \cup {[t EXCEPT !.pc = "enc",
                                                    !.env = EncryptDoc(t.data, t.pin, "save", t.data.lastSync)]}]
      ELSE [setSyncStatus(w, t.sess, "error") EXCEPT !.saves = rest]

\* a variant that marks the propagation synced without rewriting the cache
SaveEncDoneNoCache(w, t) ==
  [setSyncStatus(w, t.sess, "synced") EXCEPT !.saves = @ \ {t}]

\* encrypt settles: lines 732-735
SaveEncDoneW(w, t) ==
  IF w.ls.full
  THEN [setSyncStatus(w, t.sess, "error") EXCEPT !.saves = @ \ {t}]
  ELSE [setSyncStatus([w EXCEPT !.ls.cache = <<t.env>>], t.sess, "synced") EXCEPT !.saves = @ \ {t}]

SaveDone(t) ==
  /\ t \in saves
  /\ t.pc = "save"
  /\ \E ok \in {net = "up"} :
       LET w == SaveDoneW(World, t, ok)
       IN  Commit(IF \E u \in w.saves : u.data = t.data /\ u.pc = "enc"
                  THEN RemoteOk(w, TRUE)
                  ELSE RemoteFailed(w, t))

SaveEncDone(t) ==
  /\ t \in saves
  /\ t.pc = "enc"
  /\ Commit(SaveEncDoneW(World, t))

(* ---------------------------- forceSync -------------------------------- *)
\* a variant that fetches without testing the stored handle
forceSyncUntested(w, s) ==
  IF w.tokenRef[s] = NoToken
  THEN w
  ELSE LET w1 == setSyncStatus(w, s, "syncing")
           gistId == w.ls.gistId
       IN  [w1 EXCEPT !.forces = @ \cup {[sess |-> s, pin |-> w.init[s].pin, pc |-> "load",
                                           gistId |-> gistId, data |-> NullDoc,
                                           env |-> NoEnv, n |-> w.nForce]}]

\* forceSync up to the await of loadFromGist: lines 851-857, 867-868
forceSync(w, s) ==
  IF w.tokenRef[s] = NoToken
  THEN w
  ELSE LET w1 == setSyncStatus(w, s, "syncing")
           gistId == w.ls.gistId
       IN  IF gistId # NoGist
           THEN [w1 EXCEPT !.forces = @ \cup {[sess |-> s, pin |-> w.init[s].pin, pc |-> "load",
                                               gistId |-> gistId, data |-> NullDoc,
                                               env |-> NoEnv, n |-> w.nForce]}]
           ELSE setSyncStatus(w1, s, "error")

\* the "refresh from cloud" buttons, disabled while syncing: lines 984-985, 1177-1178
ForceSync(maxOps) ==
  /\ screen = "main"
  /\ dataLoaded
  /\ syncStatus # "syncing"
  /\ nForce < MaxForce
  /\ nMut + nForce < maxOps
  /\ Commit(forceSync([World EXCEPT !.nForce = @ + 1], cur))

\* a variant that merges the fetched records into the in-memory dataset
ForceLoadDoneMerge(w, t, ok) ==
  LET data == loadFromGist(w.gists, t.gistId, ok)
      rest == w.forces \ {t}
  IN  IF data # <<>>
      THEN LET own(r) == r.id \notin Ids(data[1].prompts)
               w1 == setPrompts(w, t.sess, data[1].prompts \o SelectSeq(w.prompts, own), "force")
           IN  [w1 EXCEPT !.forces = rest \cup {[t EXCEPT !.pc = "enc", !.data = data[1],
                                                 !.env = EncryptDoc(data[1], t.pin, "force", t.n)]}]
      ELSE [setSyncStatus(w, t.sess, "error") EXCEPT !.forces = rest]

\* loadFromGist settles: lines 857-868
ForceLoadDoneW(w, t, ok) ==
  LET data == loadFromGist(w.gists, t.gistId, ok)
      rest == w.forces \ {t}
  IN  IF data # <<>>
      THEN LET w1 == setPrompts(w, t.sess, data[1].prompts, "force")
           IN  [w1 EXCEPT !.forces = rest \cup {[t EXCEPT !.pc = "enc", !.data = data[1],
                                                 !.env = EncryptDoc(data[1], t.pin, "force", t.n)]}]
      ELSE [setSyncStatus(w, t.sess, "error") EXCEPT !.forces = rest]

\* encrypt settles: lines 860-864
ForceEncDoneW(w, t) ==
  IF w.ls.full
  THEN [setSyncStatus(w, t.sess, "error") EXCEPT !.forces = @ \ {t}]
  ELSE [setSyncStatus([w EXCEPT !.ls.cache = <<t.env>>], t.sess, "synced") EXCEPT !.forces = @ \ {t}]

ForceLoadDone(t) ==
  /\ t \in forces
  /\ t.pc = "load"
  /\ \E ok \in {net = "up"} :
       LET w == ForceLoadDoneW(World, t, ok)
           fetched == \E u \in w.forces : u.pc = "enc" /\ u.n = t.n
       IN  Commit(RemoteOk(IF fetched /\ Live(World, t.sess)
                           THEN [w EXCEPT !.lastWriter.n = t.n]
                           ELSE w, fetched))

ForceEncDone(t) ==
  /\ t \in forces
  /\ t.pc = "enc"
  /\ Commit(ForceEncDoneW(World, t))

\* genId() of addPrompt: a fresh identifier, named by the mutation that draws it
genId(n) == 10 + n

\* the record a card action is aimed at
Targets(ps) == IF ps = <<>> THEN {} ELSE {ps[1].id}

\* the network, or the account behind it, starts or stops answering
NetFlip ==
  /\ nFlips < MaxFlips
  /\ Commit([World EXCEPT !.net = IF net = "up" THEN "down" ELSE "up", !.nFlips = @ + 1])

\* Date.now() when the n-th mutation is made
MutationTime(n) == n

MutationFns ==
  {AddFn(genId(nMut + 1), MutationTime(nMut + 1))} \cup {FavFn(i) : i \in Targets(prompts)}

\* every step of an unlocked session, of the continuations it leaves behind and of the
\* network
Run(maxOps) ==
  \/ Lock
  \/ \E s \in Sessions : InitTokDone(s)
  \/ \E s \in Sessions : InitCacheDone(s)
  \/ \E s \in Sessions : InitLoadDone(s)
  \/ \E s \in Sessions : InitFindDone(s)
  \/ \E s \in Sessions : InitLoad2Done(s)
  \/ \E s \in Sessions : InitEnc1Done(s)
  \/ \E s \in Sessions : InitEnc2Done(s)
  \/ \E s \in Sessions : InitSeedDone(s)
  \/ \E s \in Sessions : InitEnc3Done(s)
  \/ \E fn \in MutationFns : Mutate(fn, maxOps)
  \/ \E t \in timers : TimerFire(t)
  \/ \E t \in saves : SaveDone(t)
  \/ \E t \in saves : SaveEncDone(t)
  \/ ForceSync(maxOps)
  \/ \E t \in forces : ForceLoadDone(t)
  \/ \E t \in forces : ForceEncDone(t)
  \/ NetFlip

\* every step of the application and of its environment
Step(maxSessions, maxOps) ==
  \/ \E p \in PinInputs : Unlock(p, maxSessions)
  \/ Run(maxOps)

\* one unlocked session, locked at any moment, with the continuations it leaves behind
Next == Step(1, MaxOps)

Spec == Init /\ [][Next]_vars

\* lock followed by unlock: continuations of the earlier session run into the later one
NextRelock == Step(MaxSessions, MaxRelockOps)

SpecRelock == Init /\ [][NextRelock]_vars

\* lock followed by unlock on one device state, with edits in both sessions
ResumeScenarios == {[ls |-> Store(GoodToken, <<CorruptEnv>>, NoGist), gists |-> UsedAccount]}

InitResume == Start(ResumeScenarios)

NextResume == Step(MaxSessions, MaxOps)

SpecResume == InitResume /\ [][NextResume]_vars

\* the setup of a new device, and a session in which the token is replaced
NextSetup ==
  \/ \E pin \in PinInputs, token \in TokenInputs : Setup(pin, token)
  \/ \E newToken \in TokenInputs : UpdateToken(newToken)
  \/ Step(1, MaxDeviceOps)

SpecSetup == InitSetup /\ [][NextSetup]_vars

\* one unlocked session on a device in one of the further states
NextDevice == Step(1, MaxDeviceOps)

SpecDevice == InitDevice /\ [][NextDevice]_vars

(* ------------------- the editing operations of a session -------------- *)
MaxEditOps == 1
MaxImports == 1

\* a parsed JSON value: an array with its elements, or anything else
JsonArray(items) == [array |-> TRUE, items |-> items]
JsonObject == [array |-> FALSE, items |-> <<>>]
ArrayIsArray(v) == v.array

Imported(i) == Prompt(i, "imported", FALSE)

\* a JSON object without the fields of Prompt
Malformed == Prompt(Undefined, "", FALSE)

\* files chosen for import: text that is not JSON, a JSON object, and arrays: of a new
\* record, of a record already present and a new one, of two records with one id, and of an
\* object that is no record followed by a record
Files ==
  {Text("{"),
   JsonStringify(JsonObject),
   JsonStringify(JsonArray(<<Imported(50)>>)),
   JsonStringify(JsonArray(<<Imported(1), Imported(51)>>)),
   JsonStringify(JsonArray(<<Imported(50), Imported(50)>>)),
   JsonStringify(JsonArray(<<Malformed, Imported(50)>>))}

\* the file inputs used so far and the file chosen last
FileInput(n, file) == [n |-> n, file |-> file]

\* importData with reader.onload: lines 886-905
Import(file) ==
  /\ screen = "main"
  /\ dataLoaded
  /\ nMut + nForce < MaxEditOps
  /\ bench.n < MaxImports
  /\ bench' = FileInput(bench.n + 1, <<file>>)
  /\ LET data == JsonParse(file)
     IN  IF data # <<>> /\ ArrayIsArray(data[1])
         THEN CommitApp(Mutated(ImportFn(data[1].items)))
         ELSE UNCHANGED appVars

\* updatePrompt, deletePrompt and the usage increment of copyToClipboard: lines 812-819, 838
EditFns ==
  {UpdFn(i, "edited", MutationTime(nMut + 1)) : i \in Targets(prompts)}
    \cup {UseFn(i) : i \in Targets(prompts)}
    \cup {DelFn(i) : i \in Targets(prompts)}

\* a device that is set up and synced, a device without a credential, and a device that
\* has the credential only
EditScenarios ==
  {[ls |-> Store(GoodToken, GoodCache, 1), gists |-> UsedAccount],
   [ls |-> Store(<<>>, GoodCache, NoGist), gists |-> EmptyAccount],
   [ls |-> Store(GoodToken, <<>>, NoGist), gists |-> UsedAccount]}

InitEdit == StartApp(EditScenarios) /\ bench = FileInput(0, <<>>)

NextEdit ==
  \/ Step(1, MaxEditOps)
  \/ \E fn \in EditFns : Mutate(fn, MaxEditOps)
  \/ \E file \in Files : Import(file)

SpecEdit == InitEdit /\ [][NextEdit]_vars

(* ------------------- the functions of crypto.ts, called directly ------- *)
MaxEncrypts == 2

\* strings of code units: PINs, two of which differ in an unpaired surrogate only
PinStrings ==
  {<<"1", "2", "3", "4">>, <<"1", "2", "3", "D800">>, <<"1", "2", "3", "D801">>}

\* plaintexts: plain text, text that starts with U+FEFF, text with an unpaired surrogate
Plaintexts == {<<"a", "b">>, <<Bom, "a">>, <<"a", "D800">>}

CryptoBench(encs, last) == [encs |-> encs, last |-> last]

\* a call of encrypt (fn is the exported function it was made through): it draws salt and iv
EncryptCall(fn, plaintext, pin, n) ==
  LET salt == RandomBytes(getRandomValues("encrypt", n, 1), SaltLen)
      iv == RandomBytes(getRandomValues("encrypt", n, 2), IvLen)
  IN  [fn |-> fn, plaintext |-> plaintext, pin |-> pin, salt |-> salt, iv |-> iv,
       out |-> encryptPacked(plaintext, pin, salt, iv)]

\* stored strings that are not an envelope: empty, shortened, not base64
Damaged(env) ==
  {<<>>, SubSeq(env, 1, Len(env) - 1), SubSeq(env, 1, 5), <<BadChar>> \o env}

Produced == {bench.encs[i].out : i \in 1..Len(bench.encs)}

Stored == Produced \cup UNION {Damaged(env) : env \in Produced}

CallEncrypt(plaintext, pin) ==
  /\ Len(bench.encs) < MaxEncrypts
  /\ bench' = CryptoBench(Append(bench.encs,
                                 EncryptCall("encrypt", plaintext, pin, Len(bench.encs) + 1)), <<>>)
  /\ UNCHANGED appVars

CallCreatePinVerifier(pin) ==
  /\ Len(bench.encs) < MaxEncrypts
  /\ bench' = CryptoBench(Append(bench.encs,
                                 EncryptCall("createPinVerifier", VerifyPhraseUnits, pin,
                                             Len(bench.encs) + 1)), <<>>)
  /\ UNCHANGED appVars

CallDecrypt(env, pin) ==
  /\ bench' = CryptoBench(bench.encs, <<[fn |-> "decrypt", arg |-> env, pin |-> pin,
                                        out |-> decryptPacked(env, pin)]>>)
  /\ UNCHANGED appVars

CallVerifyPin(pin, verifier) ==
  /\ bench' = CryptoBench(bench.encs, <<[fn |-> "verifyPin", arg |-> verifier, pin |-> pin,
                                        out |-> verifyPinPacked(pin, verifier)]>>)
  /\ UNCHANGED appVars

InitCrypto ==
  /\ StartApp({[ls |-> NoStore, gists |-> EmptyAccount]})
  /\ net = "up"
  /\ bench = CryptoBench(<<>>, <<>>)

NextCrypto ==
  \/ \E t \in Plaintexts, p \in PinStrings : CallEncrypt(t, p)
  \/ \E p \in PinStrings : CallCreatePinVerifier(p)
  \/ \E env \in Stored, p \in PinStrings : CallDecrypt(env, p)
  \/ \E v \in Stored, p \in PinStrings : CallVerifyPin(p, v)

SpecCrypto == InitCrypto /\ [][NextCrypto]_vars

(* ------------------- the functions of gist.ts, called directly -------- *)
MaxGistCalls == 1

\* what becomes of one request: the network is down, the response is lost after the server
\* acted, the server answers with a non-OK status, with an OK status and a body that is not
\* JSON, or with an OK status and the JSON body of the API
Exchanges == {"down", "lost", "status", "garbage", "json"}

\* fetch rejects
Rejects(x) == x \in {"down", "lost"}
\* res.ok
ResOk(x) == x \in {"garbage", "json"}
\* res.json() resolves
Parses(x) == x = "json"
\* the server carried the request out
Served(x) == x \in {"lost", "garbage", "json"}

\* the outcome of a function body: a returned value or an exception
Ret(v) == [thrown |-> FALSE, val |-> <<v>>]
Throw == [thrown |-> TRUE, val |-> <<>>]

\* try { body } catch { return sentinel }
Catch(body, sentinel) == IF body.thrown THEN Ret(sentinel) ELSE body

Invalid == [valid |-> FALSE, username |-> <<>>]

\* validateToken: lines 29-38
validateTokenHttp(token, x) ==
  Catch(IF Rejects(x) THEN Throw
        ELSE IF ~ResOk(x) THEN Ret(Invalid)
        ELSE IF ~Parses(x) THEN Throw
        ELSE Ret([valid |-> TRUE, username |-> <<Username>>]),
        Invalid)

\* one page of findVaultGist: lines 44-53; "next" when the loop goes on to the next page
FindPage(listed, found, x) ==
  IF Rejects(x) THEN Throw
  ELSE IF ~ResOk(x) THEN Ret(NoGist)
  ELSE IF ~Parses(x) THEN Throw
  ELSE IF ~listed THEN Ret(NoGist)
  ELSE IF found # NoGist THEN Ret(found)
  ELSE [thrown |-> FALSE, val |-> <<>>]

\* findVaultGist: lines 41-59; the gists of the account fit on the first page, others says
\* that it lists gists without the vault file, pick is the vault gist listed first
findVaultGistHttp(g, others, pick, xs) ==
  LET found == IF pick \in Labeled(g) THEN pick ELSE NoGist
      first == FindPage(others \/ Labeled(g) # {}, found, xs[1])
      second == FindPage(FALSE, NoGist, xs[2])
  IN  Catch(IF first.thrown \/ first.val # <<>> THEN first ELSE second, NoGist)

\* loadFromGist: lines 62-75
loadFromGistHttp(g, gistId, x) ==
  Catch(IF Rejects(x) THEN Throw
        ELSE IF ~ResOk(x) THEN Ret(<<>>)
        ELSE IF ~Parses(x) THEN Throw
        ELSE IF g[gistId] = <<>> THEN Ret(<<>>)
        ELSE IF JsonParse(g[gistId][1]) = <<>> THEN Throw
        ELSE Ret(JsonParse(g[gistId][1])),
        <<>>)

\* a variant of saveToGist whose create fetch is outside the try block
saveToGistUncaught(g, gistId, data, x) ==
  LET new == CHOOSE i \in FreeIds(g) : \A j \in FreeIds(g) : i <= j
  IN  IF gistId # NoGist
      THEN [res |-> Catch(IF Rejects(x) THEN Throw
                          ELSE IF ~ResOk(x) THEN Ret(NoGist)
                          ELSE Ret(gistId),
                          NoGist),
            gists |-> IF Served(x) THEN [g EXCEPT ![gistId] = <<JsonStringify(data)>>] ELSE g]
      ELSE [res |-> IF Rejects(x) THEN Throw
                    ELSE IF ~ResOk(x) THEN Ret(NoGist)
                    ELSE IF ~Parses(x) THEN Throw
                    ELSE Ret(new),
            gists |-> IF Served(x) THEN [g EXCEPT ![new] = <<JsonStringify(data)>>] ELSE g]

\* saveToGist: lines 78-124; [res, gists]: the result and the account after the request
saveToGistHttp(g, gistId, data, x) ==
  LET new == CHOOSE i \in FreeIds(g) : \A j \in FreeIds(g) : i <= j
  IN  IF gistId # NoGist
      THEN [res |-> Catch(IF Rejects(x) THEN Throw
                          ELSE IF ~ResOk(x) THEN Ret(NoGist)
                          ELSE Ret(gistId),
                          NoGist),
            gists |-> IF Served(x) THEN [g EXCEPT ![gistId] = <<JsonStringify(data)>>] ELSE g]
      ELSE [res |-> Catch(IF Rejects(x) THEN Throw
                          ELSE IF ~ResOk(x) THEN Ret(NoGist)
                          ELSE IF ~Parses(x) THEN Throw
                          ELSE Ret(new),
                          NoGist),
            gists |-> IF Served(x) THEN [g EXCEPT ![new] = <<JsonStringify(data)>>] ELSE g]

\* deleteGist: lines 127-137
deleteGist(g, gistId, x) ==
  [res |-> Catch(IF Rejects(x) THEN Throw ELSE Ret(ResOk(x)), FALSE),
   gists |-> IF Served(x) THEN [g EXCEPT ![gistId] = <<>>] ELSE g]

\* an account whose vault file was edited by hand and is no longer JSON
EditedAccount == [i \in GistIds |-> IF i = 1 THEN <<Text("{")>> ELSE <<>>]

GistBench(g, others, n, last) == [gists |-> g, others |-> others, n |-> n, last |-> last]

GistCall(fn, x, gistId, res) == <<[fn |-> fn, x |-> x, gistId |-> gistId, res |-> res]>>

\* the exchanges the server can produce: it rejects what it cannot carry out
ExchangesIf(possible) == IF possible THEN Exchanges ELSE {"down", "status"}

CallValidateToken(token) ==
  /\ bench.n < MaxGistCalls
  /\ \E x \in ExchangesIf(token = Token) :
       bench' = GistBench(bench.gists, bench.others, bench.n + 1,
                          GistCall("validateToken", x, NoGist, validateTokenHttp(token, x)))
  /\ UNCHANGED appVars

CallFindVaultGist ==
  /\ bench.n < MaxGistCalls
  /\ \E x1 \in Exchanges, x2 \in Exchanges, pick \in GistIds :
       /\ Labeled(bench.gists) # {} => pick \in Labeled(bench.gists)
       /\ bench' = GistBench(bench.gists, bench.others, bench.n + 1,
                             GistCall("findVaultGist", x1, NoGist,
                                      findVaultGistHttp(bench.gists, bench.others, pick, <<x1, x2>>)))
  /\ UNCHANGED appVars

CallLoadFromGist(gistId) ==
  /\ bench.n < MaxGistCalls
  /\ \E x \in ExchangesIf(gistId \in Labeled(bench.gists)) :
       bench' = GistBench(bench.gists, bench.others, bench.n + 1,
                          GistCall("loadFromGist", x, gistId,
                                   loadFromGistHttp(bench.gists, gistId, x)))
  /\ UNCHANGED appVars

CallSaveToGist(gistId, data) ==
  /\ bench.n < MaxGistCalls
  /\ \E x \in ExchangesIf(IF gistId # NoGist THEN gistId \in Labeled(bench.gists)
                                             ELSE FreeIds(bench.gists) # {}) :
       LET r == saveToGistHttp(bench.gists, gistId, data, x)
       IN  bench' = GistBench(r.gists, bench.others, bench.n + 1,
                              GistCall("saveToGist", x, gistId, r.res))
  /\ UNCHANGED appVars

CallDeleteGist(gistId) ==
  /\ bench.n < MaxGistCalls
  /\ \E x \in ExchangesIf(gistId \in Labeled(bench.gists)) :
       LET r == deleteGist(bench.gists, gistId, x)
       IN  bench' = GistBench(r.gists, bench.others, bench.n + 1,
                              GistCall("deleteGist", x, gistId, r.res))
  /\ UNCHANGED appVars

InitGist ==
  /\ StartApp({[ls |-> NoStore, gists |-> EmptyAccount]})
  /\ net = "up"
  /\ \E g \in {EmptyAccount, UsedAccount, EditedAccount}, others \in BOOLEAN :
       bench = GistBench(g, others, 0, <<>>)

NextGist ==
  \/ \E token \in {Token, RevokedToken} : CallValidateToken(token)
  \/ CallFindVaultGist
  \/ \E gistId \in GistIds : CallLoadFromGist(gistId)
  \/ \E gistId \in GistIds \cup {NoGist}, data \in {CacheData0, RemoteData0} :
       CallSaveToGist(gistId, data)
  \/ \E gistId \in GistIds : CallDeleteGist(gistId)

SpecGist == InitGist /\ [][NextGist]_vars

(* ------------------------- the lock screen ----------------------------- *)
MaxSubmits == 2

\* the submits made so far, the one that awaits verifyPin and the one that returned last
LockBench(n, pending, last) == [n |-> n, pending |-> pending, last |-> last]

Submitted(p, verifier, ok) == [pin |-> p, verifier |-> verifier, ok |-> ok]

\* LockScreen.handleSubmit up to the await of verifyPin: lines 83-96
handleSubmit(b, l, p) ==
  IF Len(p) < 4 \/ l.verifier = <<>>
  THEN LockBench(b.n + 1, <<>>, <<Submitted(p, <<>>, FALSE)>>)
  ELSE LockBench(b.n + 1, <<Submitted(p, l.verifier, FALSE)>>, b.last)

\* a variant that unlocks whatever verifyPin returned
handleUnlockAlways(w, p, ok) == InitStart(Mount(w, p), w.cur + 1)

\* verifyPin settles: lines 96-104; App.handleUnlock mounts MainApp, whose effect starts init()
handleUnlock(w, p, ok) == IF ok THEN InitStart(Mount(w, p), w.cur + 1) ELSE w

\* the form of the lock screen is submitted with the text p in the PIN field
Submit(p) ==
  /\ screen = "lock"
  /\ cur = 0
  /\ bench.pending = <<>>
  /\ bench.n < MaxSubmits
  /\ bench' = handleSubmit(bench, ls, p)
  /\ UNCHANGED appVars

SubmitDone ==
  /\ bench.pending # <<>>
  /\ LET t == bench.pending[1]
         ok == verifyPin(t.pin, t.verifier[1])
     IN  /\ bench' = LockBench(bench.n, <<>>, <<[t EXCEPT !.ok = ok]>>)
         /\ CommitApp(handleUnlock(World, t.pin, ok))

\* SettingsModal.handleFullReset in another tab of the browser removes the five entries
\* while this tab shows the lock screen: lines 1666-1676
FullReset ==
  /\ screen = "lock"
  /\ ls.verifier # <<>>
  /\ ls' = [NoStore EXCEPT !.full = ls.full]
  /\ UNCHANGED <<screen, cur, net, nFlips, gists, prompts, syncStatus, dataLoaded, tokenRef,
                 saveTimeoutRef, timers, init, saves, forces, nMut, nForce, lastWriter,
                 failing, bench>>

\* a device that is set up and synced, one that has the credential only, and one whose
\* verifier entry is damaged
LockScenarios ==
  {[ls |-> Store(GoodToken, GoodCache, 1), gists |-> UsedAccount],
   [ls |-> Store(GoodToken, <<>>, NoGist), gists |-> UsedAccount],
   [ls |-> [Store(GoodToken, GoodCache, 1) EXCEPT !.verifier = <<CorruptEnv>>],
    gists |-> UsedAccount]}

InitLock == StartApp(LockScenarios) /\ bench = LockBench(0, <<>>, <<>>)

NextLock ==
  \/ \E p \in PinInputs : Submit(p)
  \/ SubmitDone
  \/ FullReset
  \/ Run(MaxDeviceOps)

SpecLock == InitLock /\ [][NextLock]_vars

(* ======================= properties of the code ======================== *)
LiveNow(s) == screen = "main" /\ cur = s

\* the init() of instance s returns in this step
InitCompletes(s) == init[s].pc # "done" /\ init'[s].pc = "done"

\* no mutation and no forced pull was issued so far
Undisturbed == nMut = 0 /\ nForce = 0

\* C1 (as claimed): with a credential and a known handle, when the cache decrypted and the
\* fetch returned absent, bootstrap ends with the cached dataset in memory and status error.
C1_CacheFallback ==
  [][\A s \in Sessions :
       (/\ InitCompletes(s)
        /\ LiveNow(s)'
        /\ Undisturbed'
        /\ init'[s].cacheData # <<>>
        /\ init'[s].hadHandle
        /\ init'[s].fetchFailed)
       => (prompts' = init'[s].cacheData[1].prompts /\ syncStatus' = "error")]_vars

\* the pending debounce timers of instance s
SessTimers(s) == {t \in timers : t.sess = s}

\* C2: a burst of mutations inside the debounce window leaves one pending timer per instance,
\* carrying the in-memory dataset with every mutation of the burst; when it fires with a
\* credential it issues exactly one upsert, whose dataset is the one the timer carried, and
\* an upsert of a propagation is only ever issued by a timer that fires.
C2_DebounceCoalescing ==
  /\ [](\A s \in Sessions : Cardinality(SessTimers(s)) <= 1)
  /\ [](\A t \in timers :
          (LiveNow(t.sess) /\ lastWriter.by = "mutate") => (t.newPrompts = prompts /\ t.hist.n >= 1))
  /\ [][/\ \A t \in timers :
             (timers' = timers \ {t} /\ tokenRef[t.sess] # NoToken)
             => /\ Cardinality(saves' \ saves) = 1
                /\ \A u \in saves' \ saves :
                     u.pc = "save" /\ u.sess = t.sess /\ u.data.prompts = t.newPrompts
        /\ \A u \in saves' \ saves :
             u.pc = "save" => \E t \in timers : timers' = timers \ {t}]_vars

\* two mutations were coalesced into the one upsert in flight
C2_Witness ==
  /\ timers = {}
  /\ Cardinality(saves) = 1
  /\ \E u \in saves : u.pc = "save" /\ u.hist.n = 2 /\ u.data.prompts = prompts

\* C3: when the upsert of a propagation fails, the in-memory dataset is left as it was
\* (no rollback) and the mounted instance that issued it shows status error.
C3_LocalEditDurability ==
  [][\A t \in saves :
       (t.pc = "save" /\ saves' = saves \ {t})
       => /\ prompts' = prompts
          /\ dataLoaded' = dataLoaded
          /\ LiveNow(t.sess) => syncStatus' = "error"]_vars

\* a propagation of a mutation failed: the edit is in memory and the status is error
C3_Witness ==
  /\ LiveNow(cur)
  /\ syncStatus = "error"
  /\ tokenRef[cur] # NoToken
  /\ nMut >= 1
  /\ nForce = 0
  /\ lastWriter.by = "mutate"
  /\ failing.lost # <<>>
  /\ failing.lost[1].edit \subseteq Range(prompts)
  /\ failing.lost[1].edit # {}

\* C4: a forced pull whose fetch succeeds replaces the in-memory dataset by exactly the
\* fetched one; when its cache encryption settles, the cache decrypts to the fetched dataset,
\* the status is synced, and the in-memory dataset is the fetched one unless something
\* else (a mutation, a bootstrap step, another pull) wrote it after this pull did.
C4_ForcePullOverwrites ==
  [][/\ \A u \in forces' \ forces :
          u.pc = "enc"
          => /\ <<u.data>> = loadFromGist(gists, u.gistId, TRUE)
             /\ LiveNow(u.sess) => prompts' = u.data.prompts
     /\ \A t \in forces \ forces' :
          t.pc = "enc"
          => /\ CachedDoc(ls') = <<t.data>>
             /\ LiveNow(t.sess) => /\ syncStatus' = "synced"
                                   /\ lastWriter = [by |-> "force", n |-> t.n] => prompts' = t.data.prompts]_vars

\* a forced pull completed over an edit that was still waiting for its propagation
C4_Witness ==
  /\ LiveNow(cur)
  /\ forces = {}
  /\ nForce = 1
  /\ nMut >= 1
  /\ timers # {}
  /\ lastWriter.by = "force"
  /\ syncStatus = "synced"
  /\ CachedDoc(ls) # <<>>
  /\ CachedDoc(ls)[1].prompts = prompts
  /\ \A t \in timers : t.newPrompts # prompts

\* C5: a fetch that succeeds during bootstrap replaces the in-memory dataset by the fetched
\* one whatever the cache held; when bootstrap returns from that path the cache decrypts to
\* the fetched dataset, and the mounted instance is loaded, with status synced, and holds
\* the fetched dataset unless a mutation or a forced pull wrote it in between.
C5_RemoteWinsAtBootstrap ==
  [][\A s \in Sessions :
       /\ (init[s].pc \in {"load", "load2"} /\ init'[s].pc \in {"enc1", "enc2"})
          => /\ init'[s].gistData = loadFromGist(gists, init[s].gistId, TRUE)
             /\ LiveNow(s) => prompts' = init'[s].gistData[1].prompts
       /\ (InitCompletes(s) /\ init'[s].outcome \in {"fetched", "located"})
          => /\ CachedDoc(ls') = init'[s].gistData
             /\ LiveNow(s)' => /\ syncStatus' = "synced"
                               /\ dataLoaded'
                               /\ lastWriter'.by = "init" => prompts' = init'[s].gistData[1].prompts]_vars

\* bootstrap fetched a dataset that differs from the one the cache had supplied
C5_Witness ==
  \E s \in Sessions :
    /\ LiveNow(s)
    /\ init[s].pc = "done"
    /\ init[s].outcome = "fetched"
    /\ init[s].cacheData # <<>>
    /\ init[s].cacheData # init[s].gistData
    /\ prompts = init[s].gistData[1].prompts
    /\ CachedDoc(ls) = init[s].gistData
    /\ syncStatus = "synced"

\* the dataset stored in the labeled blob g
BlobDoc(g) == loadFromGist(gists, g, TRUE)

\* C6: on the first unlock with a credential, no stored handle, no cache entry and no labeled
\* blob in the account, when the create request of bootstrap was answered and bootstrap
\* returns, the account holds exactly one labeled blob, whose prompts are the three defaults
\* with version 1, the persisted handle names that blob and the status is synced.
C6_FirstUnlockSeeds ==
  [][(/\ InitCompletes(1)
      /\ LiveNow(1)'
      /\ Undisturbed'
      /\ tokenRef'[1] # NoToken
      /\ ~init'[1].hadHandle
      /\ ~init'[1].readCache
      /\ init'[1].blobs0 = 0
      /\ init'[1].created)
     => /\ Cardinality(Labeled(gists')) = 1
        /\ \A g \in Labeled(gists') :
             /\ BlobDoc(g)' # <<>>
             /\ IsDefaults(BlobDoc(g)'[1].prompts)
             /\ Len(BlobDoc(g)'[1].prompts) = 3
             /\ BlobDoc(g)'[1].version = 1
             /\ ls'.gistId = g
        /\ syncStatus' = "synced"]_vars

\* the first bootstrap seeded an empty account
C6_Witness ==
  /\ LiveNow(1)
  /\ Undisturbed
  /\ init[1].pc = "done"
  /\ init[1].outcome = "seeded"
  /\ init[1].created
  /\ init[1].blobs0 = 0
  /\ ~init[1].readCache
  /\ ~init[1].hadHandle
  /\ Cardinality(Labeled(gists)) = 1
  /\ ls.gistId \in Labeled(gists)
  /\ syncStatus = "synced"

\* C7 (as claimed): while the lock screen is shown, no step changes the in-memory state,
\* the encrypted cache or the persisted handle, and no step issues an upsert.
C7_NoWriteAfterLock ==
  [][(screen = "lock" /\ screen' = "lock")
     => /\ UNCHANGED <<prompts, syncStatus, dataLoaded>>
        /\ ls'.cache = ls.cache
        /\ ls'.gistId = ls.gistId
        /\ \A u \in saves' \ saves : u.pc # "save"]_vars

\* C8 (as claimed): when no remote call has ever succeeded, the records written by a mutation
\* whose propagation failed in an earlier instance are in the dataset shown when the
\* bootstrap of a later instance returns.
C8_EditSurvivesRelock ==
  [][\A s \in Sessions :
       (/\ InitCompletes(s)
        /\ LiveNow(s)'
        /\ ~failing'.up
        /\ failing'.lost # <<>>
        /\ failing'.lost[1].sess < s)
       => failing'.lost[1].edit \subseteq Range(prompts')]_vars

\* C9 (as claimed): an instance whose bootstrap loaded the cache never uploads the defaults
\* and never has its in-memory dataset replaced by them.
C9_SeedingConditional ==
  \A s \in Sessions :
    init[s].cacheData # <<>>
    => /\ init[s].pc \notin {"seed", "enc3"}
       /\ ~init[s].created
       /\ ~(LiveNow(s) /\ lastWriter.by = "defaults")

\* C10 (as claimed): when the credential envelope does not decrypt, bootstrap returns with
\* status offline and with the cached dataset in memory, or the defaults when no cache decrypts.
C10_TokenFailureOffline ==
  [][\A s \in Sessions :
       (InitCompletes(s) /\ LiveNow(s)' /\ init'[s].tokenFailed)
       => /\ syncStatus' = "offline"
          /\ IF CachedDoc(ls) # <<>>
             THEN prompts' = CachedDoc(ls)[1].prompts
             ELSE IsDefaults(prompts')]_vars

\* C11 (as claimed): with no credential entry stored, bootstrap makes no remote call and
\* returns with status offline and with the dataset read from the cache in memory, or the
\* defaults when the cache read did not succeed.
C11_OfflineUnlock ==
  [][\A s \in Sessions :
       (InitCompletes(s) /\ LiveNow(s)' /\ Undisturbed' /\ ls.token = <<>>)
       => /\ init'[s].outcome = "offline"
          /\ syncStatus' = "offline"
          /\ IF init'[s].cacheData # <<>>
             THEN prompts' = init'[s].cacheData[1].prompts
             ELSE IsDefaults(prompts')]_vars

\* C12 (as claimed): when a step of bootstrap throws, the mounted instance gets status error;
\* its in-memory dataset becomes the defaults when nothing had populated it, and is kept
\* when the cache or a fetch had populated it.
C12_BootstrapFailure ==
  [][\A s \in Sessions :
       (InitCompletes(s) /\ LiveNow(s)' /\ init'[s].outcome = "error")
       => /\ syncStatus' = "error"
          /\ IF lastWriter.by = "none"
             THEN IsDefaults(prompts')
             ELSE prompts' = prompts]_vars

\* C13: when the upsert of a propagation returns a handle, that handle is persisted and names
\* the blob that now holds the document sent; when the cache encryption that follows
\* settles, the cache decrypts under the PIN to exactly that document (its prompts, version 1,
\* its lastSync) and the mounted instance that issued it shows status synced.
C13_SuccessfulPropagation ==
  [][\A t \in saves :
       /\ (t.pc = "save" /\ \E u \in saves' \ saves : u.pc = "enc" /\ u.data = t.data)
          => /\ ls'.gistId # NoGist
             /\ t.gistId # NoGist => ls'.gistId = t.gistId
             /\ t.gistId = NoGist => ls'.gistId \in Labeled(gists') \ Labeled(gists)
             /\ loadFromGist(gists', ls'.gistId, TRUE) = <<t.data>>
       /\ (t.pc = "enc" /\ t \notin saves')
          => /\ CachedDoc(ls') = <<t.data>>
             /\ t.data.version = 1
             /\ LiveNow(t.sess) => syncStatus' = "synced"]_vars

\* a propagation of an edit went through: handle, cache and status show it
C13_Witness ==
  /\ LiveNow(cur)
  /\ saves = {}
  /\ timers = {}
  /\ nMut >= 1
  /\ lastWriter.by = "mutate"
  /\ syncStatus = "synced"
  /\ ls.gistId \in Labeled(gists)
  /\ CachedDoc(ls) # <<>>
  /\ CachedDoc(ls)[1].prompts = prompts
  /\ CachedDoc(ls) = loadFromGist(gists, ls.gistId, TRUE)
  /\ CachedDoc(ls)[1].lastSync = DateNow(nMut)

\* C14 (as claimed): the upsert issued when the debounce timer of the mounted instance
\* elapses carries the in-memory dataset of that moment.
C14_SendsLatestDataset ==
  [][\A t \in timers :
       (timers' = timers \ {t} /\ LiveNow(t.sess) /\ tokenRef[t.sess] # NoToken)
       => \A u \in saves' \ saves : u.data.prompts = prompts]_vars

\* the remote operations of instance s that are still in flight
InFlight(s) ==
  {t \in saves : t.sess = s} \cup {t \in forces : t.sess = s}
  \cup (IF init[s].pc \in {"load", "enc1", "find", "load2", "enc2", "seed", "enc3"} THEN {init[s]} ELSE {})

\* C15 (as claimed): the status of the mounted instance becomes syncing only in a step that
\* starts a remote phase of bootstrap, a propagation or a forced pull; it becomes synced or
\* error only from syncing, in a step that ends such an operation; and while it is synced
\* or error no remote operation of the instance is in flight.
C15_StatusMachine ==
  /\ [](\A s \in Sessions :
          (LiveNow(s) /\ syncStatus \in {"synced", "error"}) => InFlight(s) = {})
  /\ [][\A s \in Sessions :
          (LiveNow(s) /\ LiveNow(s)' /\ syncStatus' # syncStatus)
          => /\ syncStatus' = "syncing" => InFlight(s)' \ InFlight(s) # {}
             /\ syncStatus' \in {"synced", "error"}
                => (syncStatus = "syncing" /\ InFlight(s) \ InFlight(s)' # {})]_vars

\* C16 (as claimed): at most one debounce timer is pending, and the timer that fires is the
\* one scheduled by the latest mutation applied.
C16_SingleTimer ==
  /\ [](Cardinality(timers) <= 1)
  /\ [][\A t \in timers : timers' = timers \ {t} => t.id = nMut]_vars

\* the upserts of instance s that are in flight: of its propagations and of its bootstrap
Upserts(s) ==
  {t \in saves : t.sess = s /\ t.pc = "save"} \cup (IF init[s].pc = "seed" THEN {init[s]} ELSE {})

\* C17 (as claimed): an instance has at most one upsert in flight, and a propagation that
\* completes never replaces a blob or a cache written from a document with a later lastSync.
C17_SerializedPropagations ==
  /\ [](\A s \in Sessions : Cardinality(Upserts(s)) <= 1)
  /\ [][\A t \in saves :
          /\ (t.pc = "save" /\ t \notin saves' /\ gists' # gists /\ t.gistId # NoGist
              /\ BlobDoc(t.gistId) # <<>>)
             => BlobDoc(t.gistId)[1].lastSync <= t.data.lastSync
          /\ (t.pc = "enc" /\ t \notin saves' /\ CachedDoc(ls) # <<>>)
             => CachedDoc(ls)[1].lastSync <= t.data.lastSync]_vars

\* the entry x is absent or an envelope that encrypt produced under PIN p
Sealed(x, p) ==
  x = <<>> \/ (DOMAIN x[1] = {"salt", "iv", "data"} /\ decrypt(x[1], p) # <<>>)

\* C18: in every state of a device that the application set up, the verifier, the credential
\* and the cache entries are absent or envelopes produced by encrypt under the one PIN that
\* the verifier accepts, whose plaintexts are the verify phrase, a token and a dataset
\* document; only the handle and the identity label are stored in the clear.
C18_NoPlaintextSecrets ==
  /\ DOMAIN ls = {"verifier", "token", "cache", "gistId", "username", "full"}
  /\ ls.gistId \in GistIds \cup {NoGist}
  /\ ls.username \in {<<>>, <<Username>>}
  /\ \E p \in PinInputs :
       /\ Sealed(ls.verifier, p) /\ Sealed(ls.token, p) /\ Sealed(ls.cache, p)
       /\ ls.verifier # <<>> => verifyPin(p, ls.verifier[1])
       /\ ls.token # <<>> => decrypt(ls.token[1], p)[1] \in {Text(t) : t \in TokenInputs}
       /\ ls.cache # <<>> => JsonParse(decrypt(ls.cache[1], p)[1]) # <<>>

\* a device set up with a PIN of the user's choice, whose token was replaced in the settings
\* and whose cache was written by a sync
C18_Witness ==
  /\ screen = "main"
  /\ init[1].pin = WrongPin
  /\ verifyPin(WrongPin, ls.verifier[1])
  /\ ls.token # <<>>
  /\ ls.token[1].salt.site = "settings"
  /\ ls.cache # <<>>
  /\ ls.username = <<Username>>
  /\ ls.gistId # NoGist

\* C19: when the cache read of bootstrap succeeded, then from the step that issues the first
\* remote call (fetch or locate) on, the mounted instance is marked loaded, and while that
\* call is in flight its in-memory dataset is the cached one unless a mutation or a forced
\* pull wrote it since.
C19_LocalFirst ==
  /\ [][\A s \in Sessions :
          (/\ init[s].pc \notin {"load", "find"}
           /\ init'[s].pc \in {"load", "find"}
           /\ init'[s].cacheData # <<>>
           /\ LiveNow(s)')
          => /\ dataLoaded'
             /\ prompts' = init'[s].cacheData[1].prompts
             /\ lastWriter'.by = "cache"]_vars
  /\ [](\A s \in Sessions :
          (LiveNow(s) /\ init[s].pc \in {"load", "find"} /\ init[s].cacheData # <<>>)
          => /\ dataLoaded
             /\ lastWriter.by = "cache" => prompts = init[s].cacheData[1].prompts)

\* the cached dataset is on display while the first remote call of bootstrap is in flight
C19_Witness ==
  \E s \in Sessions :
    /\ LiveNow(s)
    /\ init[s].pc \in {"load", "find"}
    /\ init[s].cacheData # <<>>
    /\ dataLoaded
    /\ prompts = init[s].cacheData[1].prompts
    /\ prompts # <<>>
    /\ syncStatus = "syncing"
    /\ ~failing.up

\* the cache read of instance s ends as a miss in this step: the entry is missing, or its
\* envelope does not decrypt, or its plaintext does not parse
CacheMiss(s) ==
  /\ init[s].pc \in {"idle", "tok", "cache"}
  /\ init'[s].pc \notin {"idle", "tok", "cache"}
  /\ ~init'[s].tokenFailed
  /\ init'[s].cacheData = <<>>
  /\ LiveNow(s)'

\* C20: a cache miss sets no error status and does not end bootstrap in its catch handler;
\* with a credential the same step starts the remote phase (status syncing, fetch when a
\* handle is stored, locate otherwise) with nothing loaded, and without one it ends bootstrap
\* offline with the defaults, as when no cache exists.
C20_CacheMiss ==
  [][\A s \in Sessions :
       CacheMiss(s)
       => /\ syncStatus' # "error"
          /\ init'[s].outcome # "error"
          /\ tokenRef'[s] # NoToken
             => /\ init'[s].pc = IF ls.gistId # NoGist THEN "load" ELSE "find"
                /\ syncStatus' = "syncing"
                /\ ~dataLoaded'
                /\ prompts' = <<>>
          /\ tokenRef'[s] = NoToken
             => /\ init'[s].outcome = "offline"
                /\ syncStatus' = "offline"
                /\ IsDefaults(prompts')]_vars

\* a cache that decrypts but does not parse was passed over and the fetch is in flight
C20_Witness ==
  /\ LiveNow(1)
  /\ ls.cache = BadJsonCache
  /\ decrypt(ls.cache[1], Pin) # <<>>
  /\ init[1].readCache
  /\ init[1].cacheData = <<>>
  /\ init[1].pc = "load"
  /\ syncStatus = "syncing"
  /\ ~dataLoaded

\* C21: in a mounted session that holds no credential and shows the status offline, a
\* mutation, the debounce timer it arms and a forced pull issue no remote call (no
\* propagation and no pull is started, the account is untouched), write no storage entry and
\* leave the status offline; a mutation still applies its updater to the in-memory dataset.
C21_OfflineClosed ==
  [][(/\ LiveNow(cur)
      /\ tokenRef[cur] = NoToken
      /\ syncStatus = "offline"
      /\ (nMut' # nMut \/ nForce' # nForce \/ \E t \in timers : t \notin timers'))
     => /\ saves' = saves
        /\ forces' = forces
        /\ gists' = gists
        /\ ls' = ls
        /\ syncStatus' = "offline"
        /\ nMut' # nMut => \E fn \in MutationFns : prompts' = ApplyFn(fn, prompts)
        /\ nMut' = nMut => prompts' = prompts]_vars

\* an offline session after an edit whose timer has fired and a forced pull
C21_Witness ==
  /\ LiveNow(1)
  /\ tokenRef[1] = NoToken
  /\ syncStatus = "offline"
  /\ nMut >= 1
  /\ nForce >= 1
  /\ timers = {}
  /\ lastWriter.by = "mutate"
  /\ prompts # CacheData0.prompts
  /\ CachedDoc(ls) = <<CacheData0>>
  /\ gists = EmptyAccount

\* the encrypt calls made so far, and the last decrypt or verifyPin call
EncCalls == {bench.encs[i] : i \in 1..Len(bench.encs)}

LastCall(fn) == bench.last # <<>> /\ bench.last[1].fn = fn

\* C22: every envelope encrypt returned holds, at the offsets decrypt reads (16 bytes, 12
\* bytes, the rest), the salt and the iv the call drew and the ciphertext under them, and
\* decrypt of an envelope under the passphrase it was made with returns the plaintext given
\* to encrypt.
C22_RoundTrip ==
  /\ \A e \in EncCalls :
       LET combined == base64ToUint8Array(e.out)
       IN  /\ combined # <<>>
           /\ Slice(combined[1], 0, SaltLen) = e.salt
           /\ Slice(combined[1], SaltLen, SaltLen + IvLen) = e.iv
           /\ Slice(combined[1], SaltLen + IvLen, Len(combined[1]))
                = AesGcmEncrypt(deriveKey(TextEncode(e.pin), e.salt), e.iv, TextEncode(e.plaintext))
  /\ LastCall("decrypt")
     => \A e \in EncCalls :
          bench.last[1].arg = e.out /\ bench.last[1].pin = e.pin
          => bench.last[1].out = <<e.plaintext>>

\* C23: decrypt of an envelope under a passphrase other than the one it was made with
\* fails and returns no plaintext.
C23_KeySeparation ==
  LastCall("decrypt")
  => \A e \in EncCalls :
       bench.last[1].arg = e.out /\ bench.last[1].pin # e.pin
       => bench.last[1].out = <<>>

\* C24: verifyPin returns a boolean for every stored string; on a verifier made by
\* createPinVerifier(p) it returns true for p and false for every other PIN; on a string
\* that does not decrypt under the PIN it returns false.
C24_VerifierCorrectness ==
  LastCall("verifyPin")
  => /\ bench.last[1].out \in BOOLEAN
     /\ \A e \in EncCalls :
          e.fn = "createPinVerifier" /\ bench.last[1].arg = e.out
          => bench.last[1].out = (bench.last[1].pin = e.pin)
     /\ decryptPacked(bench.last[1].arg, bench.last[1].pin) = <<>> => ~bench.last[1].out

\* C25: no two encrypt calls use the same salt and iv or return the same envelope, also
\* when their arguments are equal, and every envelope decrypts under its passphrase to the
\* plaintext it was made from.
C25_RandomizedEncryption ==
  /\ \A i, j \in 1..Len(bench.encs) :
       i # j => /\ <<bench.encs[i].salt, bench.encs[i].iv>> # <<bench.encs[j].salt, bench.encs[j].iv>>
                /\ bench.encs[i].out # bench.encs[j].out
  /\ \A e \in EncCalls : decryptPacked(e.out, e.pin) = <<e.plaintext>>

\* the value a function of gist.ts returns when it fails
Sentinel(fn) ==
  CASE fn = "validateToken" -> Invalid
    [] fn = "findVaultGist" -> NoGist
    [] fn = "loadFromGist" -> <<>>
    [] fn = "saveToGist" -> NoGist
    [] fn = "deleteGist" -> FALSE

\* the call reads the body of the response: every function but an update and a delete
ReadsBody(c) ==
  c.fn \in {"validateToken", "findVaultGist", "loadFromGist"} \/ (c.fn = "saveToGist" /\ c.gistId = NoGist)

\* C26 as stated: every call of the five functions returns, and it returns the sentinel of
\* its function whenever the request met a transport failure, a non-OK status or a body
\* that does not parse.
C26_NeverThrows ==
  \A i \in 1..Len(bench.last) :
    LET c == bench.last[i]
    IN  /\ ~c.res.thrown
        /\ c.x # "json" => c.res.val = <<Sentinel(c.fn)>>

\* C26, amended: every call of the five functions returns; it returns the sentinel of its
\* function on a transport failure and on a non-OK status, and on a body that does not
\* parse where the function reads the body; an update and a delete do not read the body and
\* return the handle, respectively true, on every OK response.
C26_NeverThrowsAmended ==
  \A i \in 1..Len(bench.last) :
    LET c == bench.last[i]
    IN  /\ ~c.res.thrown
        /\ Rejects(c.x) \/ ~ResOk(c.x) => c.res.val = <<Sentinel(c.fn)>>
        /\ c.x = "garbage" /\ ReadsBody(c) => c.res.val = <<Sentinel(c.fn)>>
        /\ c.x = "garbage" /\ c.fn = "saveToGist" /\ c.gistId # NoGist => c.res.val = <<c.gistId>>
        /\ c.x = "garbage" /\ c.fn = "deleteGist" => c.res.val = <<TRUE>>

\* an update answered with an OK status and a body that is not JSON returned the handle
C26_Witness ==
  /\ bench.last # <<>>
  /\ bench.last[1].fn = "saveToGist"
  /\ bench.last[1].gistId = 1
  /\ bench.last[1].x = "garbage"
  /\ bench.last[1].res = Ret(1)
  /\ bench.gists[1] # UsedAccount[1]

\* the effect of saveToGist(handle, data) that returned a handle, and what its caller stores
UpsertDone(handle, data) ==
  IF handle # NoGist
  THEN /\ gists' = [gists EXCEPT ![handle] = <<JsonStringify(data)>>]
       /\ Labeled(gists') = Labeled(gists)
       /\ ls'.gistId = handle
  ELSE \E new \in FreeIds(gists) :
         /\ gists' = [gists EXCEPT ![new] = <<JsonStringify(data)>>]
         /\ ls'.gistId = new

\* C27: when the saveToGist call of a propagation or of the seeding settles, then either it
\* succeeded, and with a handle exactly that blob was replaced by the whole document, no
\* blob was created and that handle is the one stored, while without a handle exactly one
\* blob was created with the document and its handle is stored; or it returned null, and
\* the stored handle is unchanged.
C27_UpsertTargetsHandle ==
  [][/\ \A t \in saves :
          t.pc = "save" /\ t \notin saves'
          => IF \E u \in saves' \ saves : u.pc = "enc" /\ u.data = t.data
             THEN UpsertDone(t.gistId, t.data)
             ELSE ls'.gistId = ls.gistId /\ gists' = gists
     /\ \A s \in Sessions :
          init[s].pc = "seed" /\ init'[s].pc # "seed"
          => IF init'[s].pc = "enc3"
             THEN UpsertDone(NoGist, init[s].defaults)
             ELSE ls'.gistId = ls.gistId /\ gists' = gists]_vars

\* a propagation sent with the stored handle has replaced that blob and created none
C27_Witness ==
  \E t \in saves :
    /\ t.pc = "enc"
    /\ t.gistId = 1
    /\ ls.gistId = 1
    /\ gists[1] = <<JsonStringify(t.data)>>
    /\ gists[1] # UsedAccount[1]
    /\ Labeled(gists) = {1}

\* C28: no two records of the in-memory dataset have the same id; a mutation that removes
\* no record leaves the id of every record that was present as it was; the records an
\* import appends have ids that were not present.
C28_IdsUnique ==
  /\ [](\A i, j \in 1..Len(prompts) : i # j => prompts[i].id # prompts[j].id)
  /\ [][nMut' # nMut /\ Len(prompts') >= Len(prompts)
        => \A i \in 1..Len(prompts) : prompts'[i].id = prompts[i].id]_vars
  /\ [][bench' # bench
        => \A i \in (Len(prompts) + 1)..Len(prompts') : prompts'[i].id \notin Ids(prompts)]_vars

\* the file parses to an array in which every element has the fields of Prompt
MatchesShape(file) ==
  LET data == JsonParse(file)
  IN  /\ data # <<>>
      /\ ArrayIsArray(data[1])
      /\ \A i \in 1..Len(data[1].items) : WellFormed(data[1].items[i])

\* C29: an import whose file has the expected shape appends its records with new ids and
\* schedules a propagation; an import of any other file leaves the dataset and the pending
\* timers as they were.
C29_ImportAllOrNothing ==
  [][bench' # bench
     => IF MatchesShape(bench'.file[1])
        THEN /\ prompts' = ApplyFn(ImportFn(JsonParse(bench'.file[1])[1].items), prompts)
             /\ \E t \in timers' : t.id = saveTimeoutRef' /\ t.newPrompts = prompts'
        ELSE /\ prompts' = prompts
             /\ timers' = timers
             /\ saveTimeoutRef' = saveTimeoutRef]_vars

\* C30: a mutation that changes a record without adding or removing one (updatePrompt,
\* toggleFavorite, the usage increment) sets updatedAt of the record it changes to the time
\* of the mutation and changes updatedAt of no other record.
C30_UpdatedAtRefreshed ==
  [][nMut' # nMut /\ Len(prompts') = Len(prompts)
     => /\ \A i \in 1..Len(prompts) :
             prompts'[i] # prompts[i] => prompts'[i].updatedAt = MutationTime(nMut + 1)
        /\ Cardinality({i \in 1..Len(prompts) : prompts'[i].updatedAt # prompts[i].updatedAt}) <= 1]_vars


\* the mounted instance s rests: bootstrap returned, no debounce timer is pending and no
\* remote call is in flight
Quiescent(s) ==
  LiveNow(s) /\ init[s].pc = "done" /\ timers = {} /\ saves = {} /\ forces = {}

\* C31 (as claimed): whenever the unlocked session is quiescent and its status is synced, the
\* prompts in memory, the prompts of the decrypted cache and the prompts of the remote blob
\* named by the stored handle are equal.
C31_QuiescentConvergence ==
  \A s \in Sessions :
    (Quiescent(s) /\ syncStatus = "synced")
    => /\ CachedDoc(ls) # <<>>
       /\ CachedDoc(ls)[1].prompts = prompts
       /\ BlobDoc(ls.gistId) # <<>>
       /\ BlobDoc(ls.gistId)[1].prompts = prompts


\* C32 (as claimed): once a forced pull has succeeded while a debounce timer of an earlier
\* mutation was pending, no propagation carrying the dataset the pull discarded is started.
C32_ForcePullSupersedes ==
  [][\A u \in saves' \ saves :
       (LiveNow(u.sess) /\ lastWriter.by = "force" /\ forces = {} /\ syncStatus = "synced")
       => u.data.prompts = prompts]_vars


\* C33 (as claimed): once a handle is stored no step of bootstrap or of a propagation
\* replaces it by a different one, and bootstrap issues no create request when a handle was
\* stored or when locate found one.
C33_HandleStable ==
  /\ [][ls.gistId # NoGist => ls'.gistId = ls.gistId]_vars
  /\ [](\A s \in Sessions :
          init[s].pc = "seed" => (~init[s].hadHandle /\ init[s].gistId = NoGist))


\* the create requests the session has in flight: of bootstrap and of its propagations
Creates(s) ==
  {t \in saves : t.sess = s /\ t.pc = "save" /\ t.gistId = NoGist}
  \cup (IF init[s].pc = "seed" THEN {init[s]} ELSE {})

\* C34 (as claimed): over unlock, mutate, propagation, forced pull and lock on one device the
\* session has at most one create request in flight and creates at most one blob: the
\* account never holds more than one labeled blob beyond those it held at unlock.
C34_OneBlobPerVault ==
  \A s \in Sessions :
    s <= cur => /\ Cardinality(Creates(s)) <= 1
                /\ Cardinality(Labeled(gists)) <= init[s].blobs0 + 1


\* C35 (as claimed): the status of the mounted instance becomes synced only in a step in
\* which a fetch returned a dataset (its cache encryption settling) or an upsert returned a
\* handle; when the upsert of the defaults during bootstrap fails the status is not synced.
C35_SyncedMeansSuccess ==
  [][\A s \in Sessions :
       (LiveNow(s) /\ LiveNow(s)' /\ syncStatus # "synced" /\ syncStatus' = "synced")
       => \/ init[s].pc \in {"enc1", "enc2", "enc3"} /\ init'[s].pc = "done"
          \/ \E t \in saves \ saves' : t.pc = "enc"
          \/ \E t \in forces \ forces' : t.pc = "enc"]_vars


(* ------------- bootstrap when every awaited call returns --------------- *)
\* a step in which a call awaited by the init() of instance s settles
InitStep(s) ==
  \/ InitTokDone(s)
  \/ InitCacheDone(s)
  \/ InitLoadDone(s)
  \/ InitFindDone(s)
  \/ InitLoad2Done(s)
  \/ InitEnc1Done(s)
  \/ InitEnc2Done(s)
  \/ InitSeedDone(s)
  \/ InitEnc3Done(s)

\* one unlocked session on a device in one of the further states; no awaited call of a
\* bootstrap stays pending forever
SpecBoot == InitDevice /\ [][NextDevice]_vars /\ WF_vars(\E s \in Sessions : InitStep(s))

\* C36: when every awaited call returns, a bootstrap that was started finishes unless the
\* session is locked first; and when it finishes in the mounted instance the dataset is
\* marked loaded and the status is synced, error or offline.
C36_BootstrapResolves ==
  /\ [][\A s \in Sessions :
          (InitCompletes(s) /\ LiveNow(s)')
          => (dataLoaded' /\ syncStatus' \in {"synced", "error", "offline"})]_vars
  /\ (screen = "main" /\ init[cur].pc # "done") ~> (screen # "main" \/ init[cur].pc = "done")

\* a bootstrap whose fetch failed has finished in the mounted instance
C36_Witness ==
  /\ LiveNow(cur)
  /\ init[cur].pc = "done"
  /\ init[cur].fetchFailed
  /\ dataLoaded
  /\ syncStatus \in {"synced", "error", "offline"}

(* ---------------- a session in which armed timers elapse -------------- *)
\* a device that is set up and synced, and a device that has the credential only
SendScenarios ==
  {[ls |-> Store(GoodToken, GoodCache, 1), gists |-> UsedAccount],
   [ls |-> Store(GoodToken, <<>>, NoGist), gists |-> UsedAccount]}

InitSend == Start(SendScenarios)

\* one unlocked session with a credential; a debounce timer that is armed elapses
SpecSend == InitSend /\ [][NextDevice]_vars /\ WF_vars(\E t \in timers : TimerFire(t))

\* the timer armed by the n-th mutation is pending, in an instance that holds a credential
Pending(n) == \E t \in timers : t.id = n /\ tokenRef[t.sess] # NoToken

\* an upsert carrying the dataset written by the n-th mutation has been issued
Sent(n) ==
  \E u \in saves : /\ u.data.lastSync = DateNow(n)
                   /\ u.hist.edit # {}
                   /\ u.hist.edit \subseteq Range(u.data.prompts)

\* C37: in an instance with a credential, the timer armed by a mutation leads to an upsert
\* carrying the dataset that mutation wrote, unless a further mutation follows; and a
\* mutation made while a remote call is in flight changes the in-memory dataset in the same
\* step and arms a timer holding the new dataset, leaving the call in flight.
C37_EveryEditSent ==
  /\ \A n \in 1..MaxDeviceOps : Pending(n) ~> (Sent(n) \/ nMut > n)
  /\ [][\A s \in Sessions :
          (LiveNow(s) /\ nMut' = nMut + 1 /\ InFlight(s) # {})
          => /\ prompts' # prompts
             /\ \E t \in timers' : /\ t.id = nMut' /\ t.id = saveTimeoutRef'
                                   /\ t.sess = s /\ t.newPrompts = prompts'
             /\ InFlight(s)' = InFlight(s)]_vars

\* the upsert of an edit made during bootstrap was issued while bootstrap is still fetching
C37_Witness ==
  /\ LiveNow(cur)
  /\ init[cur].pc \in {"load", "load2", "seed"}
  /\ nMut = 1
  /\ Sent(1)


\* the upsert of propagation t fails in this step
UpsertFails(t) == t \in saves /\ t.pc = "save" /\ saves' = saves \ {t}

\* C38: the step that starts a propagation and the step in which its upsert fails leave
\* localStorage (the handle and the cache entry among it), the account and the in-memory
\* dataset as they are; in the mounted instance the failure sets the status to error.
C38_FailedPropagationFrame ==
  [][/\ \A u \in saves' \ saves :
          u.pc = "save" => (ls' = ls /\ u.gistId = ls.gistId)
     /\ \A t \in saves :
          UpsertFails(t)
          => /\ ls' = ls
             /\ gists' = gists
             /\ prompts' = prompts
             /\ LiveNow(t.sess) => syncStatus' = "error"]_vars

\* the only propagation of the session has failed on a device that holds a handle and a cache
C38_Witness ==
  /\ LiveNow(cur)
  /\ init[cur].outcome = "fetched"
  /\ nMut = 1
  /\ nForce = 0
  /\ timers = {}
  /\ saves = {}
  /\ syncStatus = "error"
  /\ ~ls.full
  /\ ls.gistId # NoGist
  /\ CachedDoc(ls) # <<>>
  /\ CachedDoc(ls)[1].prompts # prompts

\* the fetch of forced pull t returns absent in this step
PullFails(t) == t \in forces /\ t.pc = "load" /\ forces' = forces \ {t}

\* what a failed forced pull leaves alone: the in-memory dataset, localStorage (the cache
\* entry and the handle among it) and the account
PullFrame == prompts' = prompts /\ ls' = ls /\ gists' = gists

\* C39 (as claimed): a forceSync called while no handle is stored issues no remote call,
\* leaves dataset, cache and handle as they are and sets the status to error; so does the
\* step in which the fetch of a forced pull returns absent.
C39_FailedForcePullFrame ==
  [][/\ (LiveNow(cur) /\ nForce' = nForce + 1 /\ ls.gistId = NoGist)
        => (PullFrame /\ forces' = forces /\ syncStatus' = "error")
     /\ \A t \in forces :
          PullFails(t) => (PullFrame /\ (LiveNow(t.sess) => syncStatus' = "error"))]_vars

\* C39 (amended): in an instance that holds a credential, a forceSync called while no
\* handle is stored issues no remote call, leaves dataset, cache and handle as they are and
\* sets the status to error; so does the step in which the fetch of a forced pull returns
\* absent. Without a credential forceSync changes nothing, the status included.
C39_FailedForcePullFrameAmended ==
  [][/\ (LiveNow(cur) /\ nForce' = nForce + 1 /\ ls.gistId = NoGist)
        => /\ PullFrame
           /\ forces' = forces
           /\ syncStatus' = IF tokenRef[cur] # NoToken THEN "error" ELSE syncStatus
     /\ \A t \in forces :
          PullFails(t) => (PullFrame /\ (LiveNow(t.sess) => syncStatus' = "error"))]_vars

\* a forced pull was refused for want of a handle in an instance that holds a credential
C39_Witness ==
  /\ LiveNow(cur)
  /\ tokenRef[cur] # NoToken
  /\ init[cur].pc = "done"
  /\ ls.gistId = NoGist
  /\ nForce = 1
  /\ nMut = 0
  /\ forces = {}
  /\ syncStatus = "error"

\* C40: the screen changes from lock to main only in the step in which verifyPin settles
\* with true, for a PIN of four characters or more and the verifier that was stored when the
\* form was submitted, and that step starts bootstrap; a submit that is refused (short PIN,
\* missing verifier) and a verifyPin that settles with false leave the session locked and
\* everything else as it is: no bootstrap is started, so neither the credential nor the
\* cache is decrypted.
C40_UnlockGated ==
  [][/\ (screen = "lock" /\ screen' = "main")
        => /\ bench.pending # <<>>
           /\ Len(bench.pending[1].pin) >= 4
           /\ verifyPin(bench.pending[1].pin, bench.pending[1].verifier[1])
           /\ bench'.last = <<[bench.pending[1] EXCEPT !.ok = TRUE]>>
           /\ init'[cur'].pin = bench.pending[1].pin
           /\ init'[cur'].pc # "idle"
     /\ (bench'.n = bench.n + 1 /\ bench'.pending # <<>>)
        => (ls.verifier = bench'.pending[1].verifier /\ ls.verifier # <<>>
            /\ Len(bench'.pending[1].pin) >= 4)
     /\ (bench' # bench /\ bench'.pending = <<>> /\ ~bench'.last[1].ok)
        => UNCHANGED appVars]_vars

\* after a submit that failed, the right PIN has unlocked the session and started bootstrap
C40_Witness ==
  /\ screen = "main"
  /\ bench.n = MaxSubmits
  /\ bench.last # <<>>
  /\ bench.last[1].ok
  /\ init[cur].pc # "idle"

====
